---------------------------- MODULE Spec2Model ----------------------------
(***************************************************************************)
(* A model of voidbeam-core: the launch orchestration of VoidBeamCore      *)
(* (launch and the Handler stages it awaits), the download primitive       *)
(* Handler.downloadAsync with its retry branch, the library rule           *)
(* evaluator Handler.parseRule and the game-argument builder               *)
(* Handler.getLaunchOptions.                                               *)
(*                                                                         *)
(* JavaScript runs every event handler, and the promise continuations it   *)
(* makes runnable, to completion before the next I/O event is delivered.   *)
(* The model keeps that: the launch's own steps run before any network or  *)
(* file event is taken (see Runnable and Idle).                            *)
(***************************************************************************)
EXTENDS Integers, Sequences, FiniteSets, TLC

(***************************************************************************)
(* Bounds of the model.                                                    *)
(***************************************************************************)
\* failures the environment injects in one behaviour (non-200 answers,
\* transport errors, write-stream errors, a failing java check, ...)
MaxFaults == 2
\* launch() invocations in one behaviour
MaxLaunches == 2
\* length of the rule lists drawn for parseRule and for conditional tokens
MaxRules == 2
\* length of the game-argument lists drawn for getLaunchOptions
MaxArgs == 2
\* chunks the spawned process writes to stdout and stderr
MaxChunks == 1

(***************************************************************************)
(* Optional values of JavaScript (undefined / absent property): the empty  *)
(* sequence is "absent", a one-element sequence holds the value.           *)
(***************************************************************************)
None == << >>
Some(x) == << x >>

OSNames == {"windows", "osx", "linux"}

(***************************************************************************)
(* Paths are sequences of components; path.join, path.dirname and          *)
(* path.basename act on them.                                              *)
(***************************************************************************)
Join(dir, rel) == dir \o rel
Dirname(p) == SubSeq(p, 1, Len(p) - 1)
Basename(p) == p[Len(p)]
\* fs.mkdirSync(d, {recursive: true}) creates d and every ancestor
Prefixes(d) == { SubSeq(d, 1, k) : k \in 1..Len(d) }


(***************************************************************************)
(* Handler.getOS: options.os when it is set, else from process.platform.   *)
(***************************************************************************)
Platforms == {"win32", "darwin", "linux"}

getOS(os, platform) ==
  IF os # None THEN os[1]
  ELSE CASE platform = "win32" -> "windows"
         [] platform = "darwin" -> "osx"
         [] OTHER -> "linux"

(***************************************************************************)
(* Handler.parseRule.  A rule is [action, os] with os optional; lib.rules  *)
(* is optional.  The result is TRUE when the library is to be EXCLUDED.    *)
(***************************************************************************)
\* one iteration of the for loop: the value of `action` after `rule`
ParseRuleStep(action, rule, os) ==
  IF rule.action = "allow"
    THEN IF rule.os # None THEN rule.os[1] = os ELSE TRUE
    ELSE IF rule.action = "disallow"
      THEN IF rule.os # None /\ rule.os[1] = os THEN FALSE ELSE action
      ELSE action

RECURSIVE ParseRuleLoop(_, _, _)
ParseRuleLoop(rules, os, action) ==
  IF rules = << >> THEN action
  ELSE ParseRuleLoop(Tail(rules), os, ParseRuleStep(action, Head(rules), os))

parseRule(lib, os) ==
  IF lib.rules = None THEN FALSE
  ELSE ~ParseRuleLoop(lib.rules[1], os, FALSE)

(***************************************************************************)
(* Handler.getLaunchOptions.  A JavaScript value of an argument list is a  *)
(* record [t, v, rules, value]: t is what typeof gives ("string", "number", *)
(* "object", "undefined"), v the text of a string or number; an object     *)
(* (a conditional token) has optional rules and a value, which is absent,  *)
(* one string, or an array of strings.                                     *)
(***************************************************************************)
NoValue == [arr |-> FALSE, items |-> << >>]
Str(s) == [t |-> "string", v |-> s, rules |-> None, value |-> NoValue]
Num(s) == [t |-> "number", v |-> s, rules |-> None, value |-> NoValue]
Undefined == [t |-> "undefined", v |-> "", rules |-> None, value |-> NoValue]
\* { rules: [...], value: 'x' } and { rules: [...], value: ['x', 'y'] }
CondOne(rules, item) ==
  [t |-> "object", v |-> "", rules |-> Some(rules), value |-> [arr |-> FALSE, items |-> << item >>]]
CondList(rules, items) ==
  [t |-> "object", v |-> "", rules |-> Some(rules), value |-> [arr |-> TRUE, items |-> items]]

\* the keys of `fields`, in the order of the object literal
FieldKeys ==
  << "${auth_player_name}", "${version_name}", "${game_directory}", "${assets_root}",
     "${assets_index_name}", "${auth_uuid}", "${auth_access_token}", "${user_type}",
     "${version_type}", "${resolution_width}", "${resolution_height}" >>

\* this.version.assets === 'legacy' || this.version.assets === 'pre-1.6'
isLegacy(ver) == ver.assets \in {"legacy", "pre-1.6"}

\* an optional number of options.window as an argument value
NumberOr(opt) == IF opt = None THEN Undefined ELSE Num(opt[1])

\* the object `fields` of getLaunchOptions; o is this.options after launch
\* normalised it, ver is this.version
Fields(o, ver) ==
  [k \in { FieldKeys[i] : i \in 1..Len(FieldKeys) } |->
     CASE k = "${auth_player_name}" -> Str(o.authorization.name)
       [] k = "${version_name}" -> Str(o.number)
       [] k = "${game_directory}" -> Str("/root")
       [] k = "${assets_root}" -> IF isLegacy(ver) THEN Str("/root/resources")
                                  ELSE Str("/root/assets")
       [] k = "${assets_index_name}" -> Str(ver.assetIndex.id)
       [] k = "${auth_uuid}" -> Str(o.authorization.uuid)
       [] k = "${auth_access_token}" -> Str(o.authorization.access_token)
       [] k = "${user_type}" -> IF o.authorization.meta = None THEN Str("offline")
                                ELSE Str(o.authorization.meta[1].type)
       [] k = "${version_type}" -> IF o.type = None THEN Str("release") ELSE Str(o.type[1])
       [] k = "${resolution_width}" -> IF o.window = None THEN Num("856")
                                       ELSE NumberOr(o.window[1].width)
       [] k = "${resolution_height}" -> IF o.window = None THEN Num("482")
                                        ELSE NumberOr(o.window[1].height)]

\* minecraftArguments.split(' '): a string is the sequence of its maximal
\* space-free runs and of the single spaces between them
RECURSIVE SplitFrom(_, _, _)
SplitFrom(s, i, piece) ==
  IF i > Len(s) THEN << Str(piece) >>
  ELSE IF s[i] = " " THEN << Str(piece) >> \o SplitFrom(s, i + 1, "")
  ELSE SplitFrom(s, i + 1, s[i])

Split(s) == SplitFrom(s, 1, "")

\* the inner loop over args[index].rules
IncludeStep(shouldInclude, rule, os) ==
  IF rule.action = "allow"
    THEN rule.os # None /\ rule.os[1] = os
    ELSE shouldInclude

\* a conditional token that is kept whatever its rules say
IncludeAlways(rules, os) == TRUE

RECURSIVE IncludeLoop(_, _, _)
IncludeLoop(rules, os, shouldInclude) ==
  IF rules = << >> THEN shouldInclude
  ELSE IncludeLoop(Tail(rules), os, IncludeStep(shouldInclude, Head(rules), os))

ShouldInclude(rules, os) == IncludeLoop(rules, os, TRUE)

\* args[index].value is truthy: a non-empty string or any array
Truthy(value) == value.arr \/ (value.items # << >> /\ value.items[1].v # "")

\* args.splice(index, 1, ...items)
Splice(args, index, items) ==
  SubSeq(args, 1, index - 1) \o items \o SubSeq(args, index + 1, Len(args))

\* the loop `for (let index = 0; index < args.length; index++)`, from index on
RECURSIVE ReplaceLoop(_, _, _, _)
ReplaceLoop(args, index, fields, os) ==
  IF index > Len(args) THEN args
  ELSE
    LET a == args[index] IN
      IF a.t = "object"
        THEN IF a.rules # None
               THEN IF ShouldInclude(a.rules[1], os) /\ Truthy(a.value)
                      THEN IF a.value.arr
                             THEN ReplaceLoop(Splice(args, index, a.value.items),
                                              index + 1, fields, os)
                             ELSE ReplaceLoop([args EXCEPT ![index] = a.value.items[1]],
                                              index + 1, fields, os)
                      ELSE \* args.splice(index, 1); index--
                           ReplaceLoop(Splice(args, index, << >>), index, fields, os)
               ELSE ReplaceLoop(args, index + 1, fields, os)
        ELSE IF a.t = "string" /\ a.v \in DOMAIN fields
               THEN ReplaceLoop([args EXCEPT ![index] = fields[a.v]], index + 1, fields, os)
               ELSE ReplaceLoop(args, index + 1, fields, os)

\* the options.window block
WindowArgs(window) ==
  IF window = None THEN << >>
  ELSE IF window[1].fullscreen THEN << Str("--fullscreen") >>
  ELSE (IF window[1].width # None THEN << Str("--width"), Num(window[1].width[1]) >> ELSE << >>)
       \o (IF window[1].height # None THEN << Str("--height"), Num(window[1].height[1]) >>
           ELSE << >>)

\* args.filter(value => typeof value === 'string' || typeof value === 'number')
Printable(args) == SelectSeq(args, LAMBDA a : a.t \in {"string", "number"})

getLaunchOptions(o, ver) ==
  LET args0 == IF ver.minecraftArguments # << >>
                 THEN Split(ver.minecraftArguments)
                 ELSE ver.game
      args1 == IF o.customLaunchArgs # None THEN args0 \o o.customLaunchArgs[1] ELSE args0
      args2 == ReplaceLoop(args1, 1, Fields(o, ver), getOS(o.os, o.platform))
  IN Printable(args2 \o WindowArgs(o.window))

\* the object options.authorization refers to, which is the caller's (launch
\* copies the options shallowly), after getLaunchOptions:
\* authorization.meta = authorization.meta || { type: 'offline' }
AuthorizationAfter(auth) ==
  [auth EXCEPT !.meta = IF @ = None THEN Some([type |-> "offline"]) ELSE @]

\* this.version after getLaunchOptions.  args is the array arguments.game of
\* the descriptor itself (Object.assign copies shallowly) unless split or
\* concat made a new array; the loop and the window options work on args in
\* place, the final filter makes a new array.
VersionAfter(o, ver) ==
  IF ver.minecraftArguments # << >> \/ o.customLaunchArgs # None THEN ver
  ELSE [ver EXCEPT !.game = ReplaceLoop(ver.game, 1, Fields(o, ver), getOS(o.os, o.platform))
                            \o WindowArgs(o.window)]

(***************************************************************************)
(* The version ids the model launches, with the components that            *)
(* id.split('.') and parseInt give, and the file names built from the id.  *)
(***************************************************************************)
Versions == {"1.16.5", "1.20.1"}

\* a version number that is the prefix of a listed id but is not listed
UnlistedVersion == "1.16"

\* more ids, for the decisions launch takes on the components of the id
VersionIds ==
  {"1.6.4", "1.7.10", "1.11.2", "1.12.2", "1.16.5", "1.17", "1.17.1", "1.18", "1.18.1",
   "1.19.4", "1.20.1"}

VersionParts(id) ==
  CASE id = "1.6.4" -> <<1, 6, 4>>
    [] id = "1.7.10" -> <<1, 7, 10>>
    [] id = "1.11.2" -> <<1, 11, 2>>
    [] id = "1.12.2" -> <<1, 12, 2>>
    [] id = "1.16" -> <<1, 16>>
    [] id = "1.16.5" -> <<1, 16, 5>>
    [] id = "1.17" -> <<1, 17>>
    [] id = "1.17.1" -> <<1, 17, 1>>
    [] id = "1.18" -> <<1, 18>>
    [] id = "1.18.1" -> <<1, 18, 1>>
    [] id = "1.19.4" -> <<1, 19, 4>>
    [] id = "1.20.1" -> <<1, 20, 1>>

\* parseInt(id.split('.')[1])
Minor(id) == VersionParts(id)[2]

\* !parseInt(id.split('.')[2]): the patch component is absent (NaN) or 0
NoPatch(id) == Len(VersionParts(id)) < 3 \/ VersionParts(id)[3] = 0

VersionJsonName(id) ==
  CASE id = "1.16.5" -> "1.16.5.json"
    [] id = "1.20.1" -> "1.20.1.json"
    [] id = "1.16" -> "1.16.json"

VersionJarName(id) ==
  CASE id = "1.16.5" -> "1.16.5.jar"
    [] id = "1.20.1" -> "1.20.1.jar"
    [] id = "1.16" -> "1.16.jar"

(***************************************************************************)
(* The Version Descriptor the meta server serves for every id: a library   *)
(* without rules, a library excluded on osx, a library that only carries   *)
(* native classifiers; and the asset index it names, of two objects.       *)
(***************************************************************************)
Rule(action, os) == [action |-> action, os |-> os]

Libraries ==
  << [name |-> "liba",
      downloads |-> Some([artifact |-> Some([path |-> <<"com", "liba.jar">>, url |-> "url:liba"]),
                          classifiers |-> None]),
      rules |-> None],
     [name |-> "libb",
      downloads |-> Some([artifact |-> Some([path |-> <<"org", "libb.jar">>, url |-> "url:libb"]),
                          classifiers |-> None]),
      rules |-> Some(<< Rule("allow", None), Rule("disallow", Some("osx")) >>)],
     [name |-> "lwjgl-platform",
      downloads |-> Some([artifact |-> None,
                          classifiers |-> Some(
                            [k \in {"natives-linux", "natives-windows", "natives-macos"} |->
                               [path |-> <<"org", "lwjgl", "lwjgl-natives.jar">>,
                                url |-> "url:natives"]])]),
      rules |-> None] >>

\* arguments.game of the descriptor
GameArguments ==
  << Str("--username"), Str("${auth_player_name}"), Str("--version"), Str("${version_name}"),
     CondOne(<< Rule("allow", Some("osx")) >>, Str("--demo")) >>

VersionJson(id) ==
  [id |-> id,
   libraries |-> Libraries,
   downloads |-> [client |-> [url |-> "url:client"]],
   assetIndex |-> [id |-> "idx", url |-> "url:index"],
   mainClass |-> "net.minecraft.client.main.Main",
   minecraftArguments |-> << >>,
   game |-> GameArguments,
   assets |-> "idx",
   lacks |-> "none"]

\* the fields a descriptor can lack: downloads.client, assetIndex, mainClass,
\* arguments (and minecraftArguments)
DescriptorFields == {"client", "assetIndex", "mainClass", "arguments"}

\* the descriptor of id without the field `lacks` ("none": complete)
Descriptor(id, lacks) == [VersionJson(id) EXCEPT !.lacks = lacks]

\* the property is defined in the parsed descriptor
Has(ver, field) == ver.lacks # field

\* JSON.stringify(this.version, null, 2)
Stringify(ver) ==
  CASE ver.id = "1.16.5" /\ ver.lacks = "none" -> "json:1.16.5"
    [] ver.id = "1.20.1" /\ ver.lacks = "none" -> "json:1.20.1"
    [] ver.id = "1.20.1" /\ ver.lacks = "client" -> "json:1.20.1-client"
    [] ver.id = "1.20.1" /\ ver.lacks = "assetIndex" -> "json:1.20.1-assetIndex"
    [] ver.id = "1.20.1" /\ ver.lacks = "mainClass" -> "json:1.20.1-mainClass"
    [] ver.id = "1.20.1" /\ ver.lacks = "arguments" -> "json:1.20.1-arguments"

\* JSON.parse of a descriptor text: None when it throws
Parse(text) ==
  CASE text = "json:1.16.5" -> Some(Descriptor("1.16.5", "none"))
    [] text = "json:1.20.1" -> Some(Descriptor("1.20.1", "none"))
    [] text = "json:1.20.1-client" -> Some(Descriptor("1.20.1", "client"))
    [] text = "json:1.20.1-assetIndex" -> Some(Descriptor("1.20.1", "assetIndex"))
    [] text = "json:1.20.1-mainClass" -> Some(Descriptor("1.20.1", "mainClass"))
    [] text = "json:1.20.1-arguments" -> Some(Descriptor("1.20.1", "arguments"))
    [] OTHER -> None

\* index.objects of the asset index, in key order, and each object's hash
AssetNames == << "icon.png", "lang.json" >>
AssetHash(name) == IF name = "icon.png" THEN "ab1f" ELSE "ab2e"
\* hash.substring(0, 2)
SubHash(hash) == CASE hash = "ab1f" -> "ab" [] hash = "ab2e" -> "ab"
\* `${assetIndex}.json`
IndexName(id) == CASE id = "idx" -> "idx.json"
\* `${overrides.url.resource}/${subhash}/${hash}`
ResourceUrl(subhash, hash) ==
  CASE subhash = "ab" /\ hash = "ab1f" -> "url:resources/ab/ab1f"
    [] subhash = "ab" /\ hash = "ab2e" -> "url:resources/ab/ab2e"
\* file.endsWith('.jar')
IsJar(name) ==
  name \in {"lwjgl-natives.jar", "jinput-natives.jar", "text2speech-natives.jar", "liba.jar",
            "libb.jar", "1.16.5.jar", "1.20.1.jar"}

(***************************************************************************)
(* The file system: dirs is the set of directories, disk maps each file    *)
(* to its content.  "data" is the complete body the server answers with    *)
(* status 200 for the file's URL; "junk" is anything else a file can hold  *)
(* (empty after being created or truncated, a partial body, the body of a  *)
(* non-200 answer, interleaved writes of two streams).                     *)
(***************************************************************************)
Exists(d, p) == p \in DOMAIN d
\* a write that leaves the disk as it was
Untouched(d, p, v) == d
Put(d, p, v) == [q \in (DOMAIN d) \cup {p} |-> IF q = p THEN v ELSE d[q]]
Remove(d, P) == [q \in (DOMAIN d) \ P |-> d[q]]
\* the listing of an empty directory
NoEntries(d, dir) == {}
\* fs.readdirSync(dir): the files of the model lie directly in their directory
Readdir(d, dir) == { p \in DOMAIN d : Dirname(p) = dir }

Root == <<"root">>
\* the paths launch and the handler derive from options.root (no overrides)
VersionDirectory(number) == Join(Root, <<"versions", number>>)
VersionJsonPath(number) == Join(VersionDirectory(number), <<VersionJsonName(number)>>)
McPath(number) == Join(VersionDirectory(number), <<VersionJarName(number)>>)
CacheDirectory == Join(Root, <<"cache", "json">>)
NativeDirectory(id) == Join(Root, <<"natives", id>>)
LibraryDirectory == Join(Root, <<"libraries">>)
AssetDirectory == Join(Root, <<"assets">>)
IndexPath(id) == Join(AssetDirectory, <<"indexes", IndexName(id)>>)
\* path.join(assetDirectory, 'objects', subhash)
SubAsset(hash) == Join(AssetDirectory, <<"objects", SubHash(hash)>>)


(***************************************************************************)
(* The command line launch builds: the JVM flags, the class path tokens    *)
(* and the game arguments.  A string built from parts is looked up in a    *)
(* table of the strings the model can build.                               *)
(***************************************************************************)
\* options.memory: a value is a number or a string with a unit
MemNum(n) == [isNum |-> TRUE, n |-> n, s |-> ""]
MemStr(s) == [isNum |-> FALSE, n |-> 0, s |-> s]

\* `${n}M`
MegaText(n) ==
  CASE n = 256 -> "256M" [] n = 512 -> "512M" [] n = 1023 -> "1023M" [] n = 2048 -> "2048M"

\* `${value}` of a memory value
PlainText(m) ==
  IF m.isNum
    THEN CASE m.n = 256 -> "256" [] m.n = 512 -> "512" [] m.n = 1023 -> "1023"
           [] m.n = 2048 -> "2048"
    ELSE m.s

\* the texts of the default memory { min: 512, max: 1023 }
DefaultMemory(memory) == << MegaText(1023), MegaText(512) >>

\* a getMemory that leaves a maximum below the minimum as it is
NoReset(memory) ==
  LET mem == IF memory = None THEN [min |-> MemNum(512), max |-> MemNum(1023)] ELSE memory[1]
  IN IF mem.max.isNum /\ mem.min.isNum THEN << MegaText(mem.max.n), MegaText(mem.min.n) >>
     ELSE << PlainText(mem.max), PlainText(mem.min) >>

\* Handler.getMemory: << max text, min text >>
getMemory(memory) ==
  LET mem == IF memory = None THEN [min |-> MemNum(512), max |-> MemNum(1023)] ELSE memory[1]
  IN IF mem.max.isNum /\ mem.min.isNum
       THEN IF mem.max.n < mem.min.n
              THEN << MegaText(1023), MegaText(512) >>
              ELSE << MegaText(mem.max.n), MegaText(mem.min.n) >>
       ELSE << PlainText(mem.max), PlainText(mem.min) >>

\* `-Xmx${text}` and `-Xms${text}`
HeapFlag(prefix, text) ==
  CASE prefix = "-Xmx" /\ text = "4G" -> "-Xmx4G"
    [] prefix = "-Xmx" /\ text = "2G" -> "-Xmx2G"
    [] prefix = "-Xmx" /\ text = "256M" -> "-Xmx256M"
    [] prefix = "-Xmx" /\ text = "512M" -> "-Xmx512M"
    [] prefix = "-Xmx" /\ text = "1023M" -> "-Xmx1023M"
    [] prefix = "-Xmx" /\ text = "2048M" -> "-Xmx2048M"
    [] prefix = "-Xmx" /\ text = "2048" -> "-Xmx2048"
    [] prefix = "-Xms" /\ text = "4G" -> "-Xms4G"
    [] prefix = "-Xms" /\ text = "2G" -> "-Xms2G"
    [] prefix = "-Xms" /\ text = "256M" -> "-Xms256M"
    [] prefix = "-Xms" /\ text = "512M" -> "-Xms512M"
    [] prefix = "-Xms" /\ text = "1023M" -> "-Xms1023M"
    [] prefix = "-Xms" /\ text = "2048M" -> "-Xms2048M"
    [] prefix = "-Xms" /\ text = "2048" -> "-Xms2048"

\* Handler.getJVM
getJVM(os) ==
  CASE os = "windows" ->
         "-XX:HeapDumpPath=MojangTricksIntelDriversForPerformance_javaw.exe_minecraft.exe.heapdump"
    [] os = "osx" -> "-XstartOnFirstThread"
    [] os = "linux" -> "-Xss1M"

\* the text of the paths that reach the command line
PathText(p) ==
  CASE p = Root -> "/root"
    [] p = NativeDirectory("1.6.4") -> "/root/natives/1.6.4"
    [] p = NativeDirectory("1.7.10") -> "/root/natives/1.7.10"
    [] p = NativeDirectory("1.11.2") -> "/root/natives/1.11.2"
    [] p = NativeDirectory("1.12.2") -> "/root/natives/1.12.2"
    [] p = NativeDirectory("1.16.5") -> "/root/natives/1.16.5"
    [] p = NativeDirectory("1.17") -> "/root/natives/1.17"
    [] p = NativeDirectory("1.17.1") -> "/root/natives/1.17.1"
    [] p = NativeDirectory("1.18") -> "/root/natives/1.18"
    [] p = NativeDirectory("1.18.1") -> "/root/natives/1.18.1"
    [] p = McPath("1.16.5") -> "/root/versions/1.16.5/1.16.5.jar"
    [] p = McPath("1.20.1") -> "/root/versions/1.20.1/1.20.1.jar"
    [] p = Join(LibraryDirectory, <<"com", "liba.jar">>) -> "/root/libraries/com/liba.jar"
    [] p = Join(LibraryDirectory, <<"org", "libb.jar">>) -> "/root/libraries/org/libb.jar"
    [] p = Join(LibraryDirectory, <<"net", "libr.jar">>) -> "/root/libraries/net/libr.jar"

\* `-Djava.library.path=${nativePath}`
LibraryPathFlag(text) ==
  CASE text = "/root" -> "-Djava.library.path=/root"
    [] text = "/root/natives/1.6.4" -> "-Djava.library.path=/root/natives/1.6.4"
    [] text = "/root/natives/1.7.10" -> "-Djava.library.path=/root/natives/1.7.10"
    [] text = "/root/natives/1.11.2" -> "-Djava.library.path=/root/natives/1.11.2"
    [] text = "/root/natives/1.12.2" -> "-Djava.library.path=/root/natives/1.12.2"
    [] text = "/root/natives/1.16.5" -> "-Djava.library.path=/root/natives/1.16.5"
    [] text = "/root/natives/1.17" -> "-Djava.library.path=/root/natives/1.17"
    [] text = "/root/natives/1.17.1" -> "-Djava.library.path=/root/natives/1.17.1"
    [] text = "/root/natives/1.18" -> "-Djava.library.path=/root/natives/1.18"
    [] text = "/root/natives/1.18.1" -> "-Djava.library.path=/root/natives/1.18.1"

\* what getNatives returns: the natives directory, or the root from 1.19 on
NativePath(id) == IF Minor(id) >= 19 THEN Root ELSE NativeDirectory(id)

\* arg.includes('Dlog4j.configurationFile')
IsLog4jFlag(arg) ==
  arg.v \in {"-Dlog4j.configurationFile=custom.xml", "-Dlog4j.configurationFile=log4j2_112-116.xml",
             "-Dlog4j.configurationFile=log4j2_17-111.xml"}

\* `-Dlog4j.configurationFile=${name}`
ConfigurationFlag(name) ==
  CASE name = "log4j2_112-116.xml" -> "-Dlog4j.configurationFile=log4j2_112-116.xml"
    [] name = "log4j2_17-111.xml" -> "-Dlog4j.configurationFile=log4j2_17-111.xml"

\* the array jvm before the log4j block; o is this.options, id the descriptor's id
JvmBefore(o, id) ==
  << Str("-XX:-UseAdaptiveSizePolicy"),
     Str("-XX:-OmitStackTraceInFastThrow"),
     Str("-Dfml.ignorePatchDiscrepancies=true"),
     Str("-Dfml.ignoreInvalidMinecraftCertificates=true"),
     Str(LibraryPathFlag(PathText(NativePath(id)))),
     Str(HeapFlag("-Xmx", getMemory(o.memory)[1])),
     Str(HeapFlag("-Xms", getMemory(o.memory)[2])) >>
  \o (IF getOS(o.os, o.platform) = "osx"
        THEN IF Minor(id) > 12 THEN << Str(getJVM("osx")) >> ELSE << >>
        ELSE << Str(getJVM(getOS(o.os, o.platform))) >>)
  \o (IF o.customArgs # None THEN o.customArgs[1] ELSE << >>)

\* no configuration file
NoFile(minor) == None

\* the log4j configuration file of versions below 1.17
Log4jFile(minor) ==
  IF minor < 17
    THEN IF minor >= 12 THEN Some([name |-> "log4j2_112-116.xml", url |-> "url:log4j2_112-116"])
         ELSE IF minor >= 7 THEN Some([name |-> "log4j2_17-111.xml", url |-> "url:log4j2_17-111"])
         ELSE None
    ELSE None

\* the file launch downloads: none when jvm already names a configuration file
Log4jDownload(o, id) ==
  IF \E i \in 1..Len(JvmBefore(o, id)) : IsLog4jFlag(JvmBefore(o, id)[i]) THEN None
  ELSE Log4jFile(Minor(id))

\* the array jvm when the class path is built
JvmFlags(o, id) ==
  JvmBefore(o, id)
  \o (IF Log4jDownload(o, id) # None
        THEN << Str(ConfigurationFlag(Log4jDownload(o, id)[1].name)) >> ELSE << >>)
  \o (IF Minor(id) = 18 /\ NoPatch(id) THEN << Str("-Dlog4j2.formatMsgNoLookups=true") >>
      ELSE << >>)
  \o (IF Minor(id) = 17 THEN << Str("-Dlog4j2.formatMsgNoLookups=true") >> ELSE << >>)

\* the separator of the families other than windows
Colon(os) == ":"

\* this.handler.getOS() === 'windows' ? ';' : ':'
Separator(os) == IF os = "windows" THEN ";" ELSE ":"

\* classes.join(separator), as the pieces of the string
RECURSIVE JoinWith(_, _)
JoinWith(texts, sep) ==
  IF texts = << >> THEN << >>
  ELSE IF Len(texts) = 1 THEN << Str(texts[1]) >>
  ELSE << Str(texts[1]), Str(sep) >> \o JoinWith(Tail(texts), sep)

\* a string given by the pieces it is the concatenation of
Pieces(items) ==
  [t |-> "string", v |-> "", rules |-> None, value |-> [arr |-> TRUE, items |-> items]]

\* the array classPaths: '-cp', `${classes.join(separator)}${jar}`, mainClass
ClassPaths(classes, os, mcPath, ver) ==
  << Str("-cp"),
     Pieces(JoinWith(classes, Separator(os)) \o << Str(Separator(os)), Str(mcPath) >>),
     IF Has(ver, "mainClass") THEN Str(ver.mainClass) ELSE Undefined >>

\* args.concat(jvm, classPaths, launchOptions)
LaunchArguments(jvm, classPaths, launchOptions) == jvm \o classPaths \o launchOptions

\* the identity and the options of the launches of the argument builder
Steve == [name |-> "Steve", uuid |-> "uuid-1", access_token |-> "token-1", meta |-> None]
\* an identity that carries meta
Alex == [name |-> "Alex", uuid |-> "uuid-2", access_token |-> "token-2",
         meta |-> Some([type |-> "mojang"])]

LaunchOptions(os, platform, window, customLaunchArgs) ==
  [os |-> os, platform |-> platform, number |-> "1.20.1", type |-> None,
   authorization |-> Steve, window |-> window, customLaunchArgs |-> customLaunchArgs]

\* the options with the ones the JVM flags are built from
JvmOptions(o, number, memory, customArgs) ==
  [o EXCEPT !.number = number] @@ [memory |-> memory, customArgs |-> customArgs]

(***************************************************************************)
(* The authenticator: the endpoints of the module.  A URL is the list of   *)
(* the pieces it is the concatenation of; a slash is a piece of its own.   *)
(***************************************************************************)
\* the first argument of changeApiUrl: a string, null or a number
UrlText(chars) == [type |-> "string", chars |-> chars]
NullUrl == [type |-> "object", chars |-> << >>]
NumberUrl == [type |-> "number", chars |-> << "123" >>]

\* a url that no value of the argument makes false
NeverFalsy(url) == FALSE

\* !url
Falsy(url) == url.type = "object" \/ (url.type = "string" /\ url.chars = << >>)

\* the url as it is
WholeUrl(chars) == chars

\* url.replace(/\/$/, ''): one slash at the end is removed
BaseUrl(chars) ==
  IF chars # << >> /\ chars[Len(chars)] = "/" THEN SubSeq(chars, 1, Len(chars) - 1)
  ELSE chars

\* the five endpoints written by changeApiUrl
Endpoints(baseUrl) ==
  [authenticate |-> baseUrl \o << "/authenticate" >>,
   refresh |-> baseUrl \o << "/refresh" >>,
   validate |-> baseUrl \o << "/validate" >>,
   invalidate |-> baseUrl \o << "/invalidate" >>,
   signout |-> baseUrl \o << "/signout" >>]

\* the endpoints of Mojang, as the module and resetApiUrls spell them
MojangEndpoints ==
  [authenticate |-> << "https://authserver.mojang.com", "/authenticate" >>,
   refresh |-> << "https://authserver.mojang.com", "/refresh" >>,
   validate |-> << "https://authserver.mojang.com", "/validate" >>,
   invalidate |-> << "https://authserver.mojang.com", "/invalidate" >>,
   signout |-> << "https://authserver.mojang.com", "/signout" >>]

\* API_URLS when the module is loaded: microsoft has no entries
DefaultUrls == [yggdrasil |-> MojangEndpoints, microsoft |-> << >>]

\* what a call returned, or the message of the error it threw
Returned(value) == [threw |-> FALSE, message |-> "", value |-> Some(value)]
Threw(message) == [threw |-> TRUE, message |-> message, value |-> None]

(***************************************************************************)
(* The authenticator: profiles.  A username is the list of its character   *)
(* codes, a token or uuid the list of its characters.  The hash of         *)
(* generateOfflineUuid is a 32-bit integer, kept as two halves of 16 bits. *)
(***************************************************************************)
Half == 65536

\* the character codes of 'OfflinePlayer:'
Namespace == << 79, 102, 102, 108, 105, 110, 101, 80, 108, 97, 121, 101, 114, 58 >>

\* hash = ((hash << 5) - hash) + char; hash = hash & hash
HashStep(hash, char) ==
  LET lo == 31 * hash.lo + char
  IN [hi |-> (31 * hash.hi + (lo \div Half)) % Half, lo |-> lo % Half]

RECURSIVE HashLoop(_, _, _)
HashLoop(data, i, hash) ==
  IF i > Len(data) THEN hash ELSE HashLoop(data, i + 1, HashStep(hash, data[i]))

\* Math.abs(hash) of the signed 32-bit integer
Abs(hash) ==
  IF hash.hi < Half \div 2 THEN hash
  ELSE [hi |-> (Half - 1 - hash.hi + (IF hash.lo = 0 THEN 1 ELSE 0)) % Half,
        lo |-> (Half - hash.lo) % Half]

HexDigit(n) ==
  << "0", "1", "2", "3", "4", "5", "6", "7", "8", "9", "a", "b", "c", "d", "e", "f" >>[n + 1]

Hex4(x) ==
  << HexDigit(x \div 4096), HexDigit((x \div 256) % 16), HexDigit((x \div 16) % 16),
     HexDigit(x % 16) >>

\* toString(16).padStart(8, '0')
Hex(hash) == Hex4(hash.hi) \o Hex4(hash.lo)

\* hex.substring(from, to)
Substring(hex, from, to) == SubSeq(hex, from + 1, IF to < Len(hex) THEN to ELSE Len(hex))

generateOfflineUuid(username) ==
  LET hex == Hex(Abs(HashLoop(Namespace \o username, 1, [hi |-> 0, lo |-> 0])))
  IN Substring(hex, 0, 8) \o << "-" >> \o Substring(hex, 0, 4) \o << "-", "4" >>
     \o Substring(hex, 1, 4) \o << "-", "8" >> \o Substring(hex, 0, 3) \o << "-" >>
     \o Substring(hex, 0, 12)

\* what a call of the authenticator did: the requests it sent, and the
\* profile it returned or the error it threw
Profile(access, client, uuid, name, type, requests) ==
  [threw |-> FALSE, message |-> "", requests |-> requests,
   value |-> Some([access_token |-> access, client_token |-> client, uuid |-> uuid,
                   name |-> name, user_properties |-> "{}",
                   meta |-> [type |-> type, demo |-> FALSE]])]
Failure(message, requests) ==
  [threw |-> TRUE, message |-> message, requests |-> requests, value |-> None]

\* the profile of the Microsoft account, obtained through msmc
getMicrosoftAuth(call) ==
  Profile(<< "msmc-access" >>, << "msmc-client" >>, << "msmc-id" >>, << "msmc-name" >>,
          "microsoft", 1)

\* the profile the authentication server answers the credentials with
getYggdrasilAuth(call) ==
  IF call.name = << >> \/ call.password = None
    THEN Failure("Username and password are required for Yggdrasil authentication", 0)
  ELSE Profile(<< "server-access" >>, << "server-client" >>, << "server-id" >>,
               << "server-name" >>, "yggdrasil", 1)

getOfflineAuth(call) ==
  IF call.name = << >> THEN Failure("Username is required for offline authentication", 0)
  ELSE Profile(generateOfflineUuid(call.name), generateOfflineUuid(call.name),
               generateOfflineUuid(call.name), call.name, "offline", 0)

\* a getAuth that sends every call to the authentication server
OnlineAuth(call) == getYggdrasilAuth(call)

\* getAuth with an options object, and with the legacy parameters
getAuth(call) ==
  IF call.fn = "getAuth(options)"
    THEN CASE call.type = Some("microsoft") -> getMicrosoftAuth(call)
           [] call.type = Some("yggdrasil") -> getYggdrasilAuth(call)
           [] OTHER -> getOfflineAuth(call)
  ELSE IF call.password # None /\ call.type = Some("yggdrasil") THEN getYggdrasilAuth(call)
       ELSE IF call.type = Some("microsoft") THEN getMicrosoftAuth(call)
       ELSE getOfflineAuth(call)

\* refreshAuth(accessToken, clientToken, type = 'offline')
refreshAuth(call) ==
  LET type == IF call.type = None THEN "offline" ELSE call.type[1]
  IN CASE type = "yggdrasil" ->
            Profile(<< "server-access" >>, << "server-client" >>, << "server-id" >>,
                    << "server-name" >>, "yggdrasil", 1)
       [] type = "microsoft" ->
            Failure("Microsoft token refresh requires re-authentication", 0)
       [] OTHER ->
            Profile(call.access, call.client, call.access, << "OfflineUser" >>, "offline", 0)

(***************************************************************************)
(* State.                                                                  *)
(***************************************************************************)
VARIABLES
  options,    \* the options every launch of the behaviour is called with
  pc,         \* where the running launch stands
  launches,   \* launch() invocations so far
  prior,      \* how the previous launch ended ("none", "running", "failed")
  version,    \* handler.version (None until getVersion has loaded it)
  dirs,       \* directories on disk
  disk,       \* files on disk
  calls,      \* every downloadAsync invocation so far, in call order
  batch,      \* the entries of the stage the launch is awaiting
  counter,    \* the module-level progress counter of handler.js
  progress,   \* 'progress' events emitted since the last launch began
  closes,     \* 'close' events emitted since the last launch began
  requests,   \* network requests issued since the last launch began
  libs,       \* the array downloadToDirectory collects library paths in
  faults,     \* failures injected so far
  meta,       \* what the meta server serves: the field the descriptor lacks
  resolution, \* how getVersion of the running launch ended (None: not yet)
  argv,       \* the 'arguments' event and the spawn of the running launch
  proc,       \* the spawned process: chunks it wrote, 'data' events emitted
  ruleIn,     \* rule evaluator harness: the library and OS under evaluation
  ruleOut,    \* rule evaluator harness: what parseRule / getClasses gave
  argIn,      \* argument builder harness: the inputs of getLaunchOptions
  argOut,     \* argument builder harness: what getLaunchOptions returned
  jvmIn,      \* JVM flag harness: the descriptor id and the options
  jvmOut,     \* JVM flag harness: the array jvm and the file downloaded
  zipIn,      \* extraction harness: the natives directory before
  zipOut,     \* extraction harness: the directory after the extract step
  authorization, \* argument builder harness: the caller's authorization object
  descriptor, \* argument builder harness: this.version of the handler
  diagIn,     \* diagnostics harness: the game arguments and where launch fails
  diagOut,    \* diagnostics harness: the debug events of two failed launches
  API_URLS,   \* authenticator: the endpoints of the module
  apiLog,     \* authenticator: the calls that changed or reset the endpoints
  apiOut,     \* authenticator: what the last call on the endpoints returned
  authIn,     \* authenticator harness: the call of an authentication function
  authOut,    \* authenticator harness: what the call returned and requested
  clients     \* two clients of one process: the batch and the events of each

pipeVars == << options, pc, launches, prior, version, dirs, disk, calls, batch,
               counter, progress, closes, requests, libs, faults,
               meta, resolution, argv, proc >>
ruleVars == << ruleIn, ruleOut >>
argVars == << argIn, argOut, authorization, descriptor >>
jvmVars == << jvmIn, jvmOut >>
zipVars == << zipIn, zipOut >>
diagVars == << diagIn, diagOut >>
apiVars == << API_URLS, apiLog, apiOut >>
authVars == << authIn, authOut >>
pairVars == << clients >>
harnessVars ==
  << ruleVars, argVars, jvmVars, zipVars, diagVars, apiVars, authVars, pairVars >>
vars == << options, pc, launches, prior, version, dirs, disk, calls, batch,
           counter, progress, closes, requests, libs, faults,
           meta, resolution, argv, proc,
           ruleIn, ruleOut, argIn, argOut, authorization, descriptor, jvmIn, jvmOut,
           zipIn, zipOut, diagIn, diagOut, API_URLS, apiLog, apiOut, authIn, authOut,
           clients >>

TargetOS == getOS(options.os, options.platform)

\* this.options as the handler of the running launch reads them
HandlerOptions ==
  JvmOptions(LaunchOptions(options.os, options.platform, None, None),
             options.number, options.memory, None)

(***************************************************************************)
(* Handler.downloadAsync.  A call is one invocation: one promise, one      *)
(* request stream and one write stream.  calls holds the invocations of    *)
(* the running launch and those of earlier launches that are still live.   *)
(*   launch, type, entry   the pipeline call it is, or is a retry of: the  *)
(*           entry-th download of the stage `type` of that launch          *)
(*   attempt 1 for the pipeline's call, 2, 3, ... for the calls made by    *)
(*           the retry branch, in call order                               *)
(*   st      the request: "inflight" (no answer yet), "bodyErr" (a non-200 *)
(*           response was delivered, its body is being piped), "done" (the *)
(*           body ended), "dead" (error event)                             *)
(*   promise "pending", "resolved" or "rejected"                           *)
(*   failed  the attempt failed: a non-200 response or an error event      *)
(*   waiter  the async function awaiting the promise, if any, as the       *)
(*           progress type and total it reports with                       *)
(*   wfail   the write stream emitted 'error'                              *)
(*   raced   another write stream was open on the same file                *)
(*   orphan  the file was unlinked while the write stream was open         *)
(***************************************************************************)
Live(c) == c.st \in {"inflight", "bodyErr"}

\* the state the handler's stages read and change, as one value
World ==
  [dirs |-> dirs, disk |-> disk, calls |-> calls, requests |-> requests,
   batch |-> batch, counter |-> counter, progress |-> progress, libs |-> libs]

SameEntry(c, launch, type, entry) ==
  c.launch = launch /\ c.type = type /\ c.entry = entry

downloadAsync(w, url, directory, name, retry, type, waiter, launch, entry) ==
  LET dest == Join(directory, <<name>>)
      open == { c \in w.calls : Live(c) /\ ~c.wfail /\ c.dest = dest }
      marked == { IF c \in open THEN [c EXCEPT !.raced = TRUE] ELSE c : c \in w.calls }
      new == [url |-> url, directory |-> directory, name |-> name, dest |-> dest,
              retry |-> retry, type |-> type, waiter |-> waiter,
              launch |-> launch, entry |-> entry,
              attempt |-> 1 + Cardinality({ c \in w.calls : SameEntry(c, launch, type, entry) }),
              st |-> "inflight", promise |-> "pending", failed |-> FALSE,
              wfail |-> FALSE, raced |-> open # {}, orphan |-> FALSE]
  IN [w EXCEPT
        !.dirs = @ \cup Prefixes(directory),     \* fs.mkdirSync(directory, {recursive})
        !.disk = Put(@, dest, "junk"),           \* fs.createWriteStream: created or truncated
        !.calls = marked \cup {new},             \* this.baseRequest(url)
        !.requests = IF launch = launches THEN @ + 1 ELSE @]

\* the retry branch of the 'response' and 'error' handlers of call c:
\* if (retry) return this.downloadAsync(url, directory, name, false, type)
RetryCall(w, c) ==
  downloadAsync(w, c.url, c.directory, c.name, FALSE, c.type, None, c.launch, c.entry)

(***************************************************************************)
(* What the async function of a batch entry does once its download (if     *)
(* any) is over: downloadToDirectory pushes the path, and it and getAssets *)
(* count the entry and emit a progress event; the other stages do nothing. *)
(***************************************************************************)
ProgressTypes == {"classes", "assets"}

\* a counter that is read but never incremented
CountNothing(n) == n

\* counter++
CountEntry(n) == n + 1

EntryDone(w, launch, entry, ptype, total, dest) ==
  LET mine == launch = launches
      w1 == IF mine THEN [w EXCEPT !.batch[entry].done = TRUE] ELSE w
      w2 == IF mine /\ ptype = "classes"
              THEN [w1 EXCEPT !.libs = Append(@, dest)] ELSE w1
  IN IF ptype \in ProgressTypes
       THEN [w2 EXCEPT !.counter = CountEntry(@),
                       !.progress = Append(@, [type |-> ptype,
                                               task |-> CountEntry(w2.counter),
                                               total |-> total])]
       ELSE w2

\* a download made whether or not the file exists
AlwaysDownload(exists) == TRUE

\* if (!fs.existsSync(path)) await this.downloadAsync(...)
ShouldDownload(exists) == ~exists

(***************************************************************************)
(* One pass of libraries.map(async ...) / natives.map / Object.keys.map:   *)
(* every entry's function runs up to its first await in list order, in one *)
(* turn of the event loop.  The write streams opened in this turn create   *)
(* their files only after it, so every existence test of the pass sees the *)
(* disk as it was when the pass began (disk0).                             *)
(* An entry is [url, directory, name, check]; check = FALSE is a download  *)
(* made without an existence test.                                         *)
(***************************************************************************)
RECURSIVE StartBatch(_, _, _, _, _, _)
StartBatch(w, entries, k, type, ptype, disk0) ==
  IF k > Len(entries) THEN w
  ELSE
    LET e == entries[k]
        dest == Join(e.directory, <<e.name>>)
        existed == Exists(disk0, dest)
        row == [type |-> type, dest |-> dest, existed |-> existed, checked |-> e.check,
                done |-> FALSE]
        wb == [w EXCEPT !.batch = Append(@, row)]
        w1 == IF (~e.check) \/ ShouldDownload(existed)
                THEN downloadAsync(wb, e.url, e.directory, e.name, TRUE, type,
                                   Some([ptype |-> ptype, total |-> Len(entries)]),
                                   launches, k)
                ELSE EntryDone(wb, launches, k, ptype, Len(entries), dest)
    IN StartBatch(w1, entries, k + 1, type, ptype, disk0)

AllDone == \A k \in 1..Len(batch) : batch[k].done

(***************************************************************************)
(* VoidBeamCore.launch.  pc names the await the launch is suspended at     *)
(* (WaitPcs) or the statement it runs next (the other values).             *)
(***************************************************************************)
BatchWaitPcs == {"nativesWait", "jarWait", "log4jWait", "classesWait", "indexWait", "assetsWait"}
StepPcs == {"getVersion", "getNatives", "getJar", "log4j", "getClasses", "getAssets",
            "assetsBatch", "getLaunchOptions"}
\* the launch has code to run in the current turn of the event loop
Runnable == pc \in StepPcs \/ (pc \in BatchWaitPcs /\ AllDone)
\* an I/O event can be delivered: the turn is over and the process is alive
Idle == ~Runnable /\ pc # "crashed"

Apply(w) ==
  /\ dirs' = w.dirs /\ disk' = w.disk /\ calls' = w.calls /\ requests' = w.requests
  /\ batch' = w.batch /\ counter' = w.counter /\ progress' = w.progress /\ libs' = w.libs

\* a return of null with no close event
ReturnNull ==
  /\ pc' = "failed"
  /\ closes' = closes

\* the catch block of launch, and the two early returns: emit close 1, return null
FailLaunch ==
  /\ pc' = "failed"
  /\ closes' = Append(closes, 1)

\* no process spawned by the running launch
NoProcess == [chunks |-> 0, data |-> 0, exit |-> None]

\* what getVersion resolved with (or how its promise was rejected)
Resolved(how, why) == Some([how |-> how, why |-> why])

\* launch(options), called when no launch is running and every download a
\* previous launch still awaited has settled
Launch ==
  /\ pc \in {"idle", "failed", "running", "exited"}
  /\ launches < MaxLaunches
  /\ \A c \in calls : c.waiter # None => ~Live(c)
  /\ calls' = { c \in calls : Live(c) }
  /\ launches' = launches + 1
  /\ prior' = CASE pc = "idle" -> "none" [] pc = "exited" -> "running" [] OTHER -> pc
  /\ pc' = "checkJava"
  /\ version' = None
  /\ batch' = << >> /\ progress' = << >> /\ closes' = << >> /\ libs' = << >>
  /\ requests' = 0
  /\ resolution' = None /\ argv' = None /\ proc' = NoProcess
  /\ UNCHANGED << options, meta, dirs, disk, counter, faults, harnessVars >>

\* checkJava answered run: true; createRootDirectory
JavaOk ==
  /\ pc = "checkJava"
  /\ pc' = "getVersion"
  /\ dirs' = dirs \cup Prefixes(Root)
  /\ UNCHANGED << options, meta, resolution, argv, proc, launches, prior, version, disk,
                  calls, batch, counter, progress, closes, requests, libs, faults,
                  harnessVars >>

\* a failed Java check that is acted on after createRootDirectory
JavaMissingLate ==
  /\ pc = "checkJava"
  /\ faults < MaxFaults
  /\ faults' = faults + 1
  /\ FailLaunch
  /\ dirs' = dirs \cup Prefixes(Root)
  /\ UNCHANGED << options, meta, resolution, argv, proc, launches, prior, version,
                  disk, calls, batch, counter, progress, requests, libs, harnessVars >>

\* checkJava answered run: false
JavaMissing ==
  /\ pc = "checkJava"
  /\ faults < MaxFaults
  /\ faults' = faults + 1
  /\ FailLaunch
  /\ UNCHANGED << options, meta, resolution, argv, proc, launches, prior, version, dirs,
                  disk, calls, batch, counter, progress, requests, libs, harnessVars >>

(***************************************************************************)
(* Handler.getVersion.                                                     *)
(***************************************************************************)
ManifestPath == Join(CacheDirectory, <<"version_manifest.json">>)
\* path.join(cache, `${number}.json`), read by the offline branch
CachedVersionPath(number) == Join(CacheDirectory, <<VersionJsonName(number)>>)
\* the ids the manifest lists
ManifestVersions == Versions

\* the descriptor file exists: read it; else request the manifest
GetVersion ==
  /\ pc = "getVersion"
  /\ IF Exists(disk, VersionJsonPath(options.number))
       THEN IF Parse(disk[VersionJsonPath(options.number)]) # None
              THEN /\ version' = Parse(disk[VersionJsonPath(options.number)])
                   /\ resolution' = Resolved("file", "")
                   /\ pc' = "getNatives"
                   /\ UNCHANGED << closes, requests >>
              ELSE \* JSON.parse throws in the promise executor: launch catches
                   /\ FailLaunch
                   /\ resolution' = Resolved("threw", "parse")
                   /\ UNCHANGED << version, requests >>
       ELSE /\ requests' = requests + 1
            /\ pc' = "manifest"
            /\ UNCHANGED << version, closes, resolution >>
  /\ UNCHANGED << options, meta, argv, proc, launches, prior, dirs, disk, calls, batch,
                  counter, progress, libs, faults, harnessVars >>

\* the cache directory is made and fs.writeFile(version_manifest.json, body)
\* is started; body is the manifest
ManifestOk ==
  /\ pc = "manifest" /\ Idle
  /\ dirs' = dirs \cup Prefixes(CacheDirectory)
  /\ pc' = "manifestWrite"
  /\ UNCHANGED << options, meta, resolution, argv, proc, launches, prior, version, disk,
                  calls, batch, counter, progress, closes, requests, libs, faults,
                  harnessVars >>

\* the manifest request answered without error but not with the manifest (the
\* page of a non-200 answer): the same path, the body is not JSON
ManifestUnparsable ==
  /\ pc = "manifest" /\ Idle
  /\ faults < MaxFaults
  /\ faults' = faults + 1
  /\ dirs' = dirs \cup Prefixes(CacheDirectory)
  /\ pc' = "manifestWriteBad"
  /\ UNCHANGED << options, meta, resolution, argv, proc, launches, prior, version, disk,
                  calls, batch, counter, progress, closes, requests, libs, harnessVars >>

\* the manifest request failed with a code other than ENOTFOUND: resolve(error)
ManifestError ==
  /\ pc = "manifest" /\ Idle
  /\ faults < MaxFaults
  /\ faults' = faults + 1
  /\ FailLaunch
  /\ resolution' = Resolved("error", "manifest request")
  /\ UNCHANGED << options, meta, argv, proc, launches, prior, version, dirs, disk, calls,
                  batch, counter, progress, requests, libs, harnessVars >>

\* the manifest request failed with ENOTFOUND: the offline branch.  A
\* JSON.parse that throws here throws in the request callback, outside every
\* promise.
ManifestOffline ==
  /\ pc = "manifest" /\ Idle
  /\ faults < MaxFaults
  /\ faults' = faults + 1
  /\ LET number == options.number
         listed == Exists(disk, ManifestPath) /\ number \in ManifestVersions
     IN IF Exists(disk, ManifestPath) /\ disk[ManifestPath] # "data"
          THEN /\ pc' = "crashed"
               /\ UNCHANGED << version, resolution, closes >>
          ELSE IF listed /\ Exists(disk, CachedVersionPath(number))
            THEN IF Parse(disk[CachedVersionPath(number)]) # None
                   THEN /\ version' = Parse(disk[CachedVersionPath(number)])
                        /\ resolution' = Resolved("offline", "")
                        /\ pc' = "getNatives"
                        /\ UNCHANGED closes
                   ELSE /\ pc' = "crashed"
                        /\ UNCHANGED << version, resolution, closes >>
            ELSE /\ FailLaunch
                 /\ resolution' = Resolved("error", "offline")
                 /\ UNCHANGED version
  /\ UNCHANGED << options, meta, argv, proc, launches, prior, dirs, disk, calls, batch,
                  counter, progress, requests, libs, harnessVars >>

\* the callback of fs.writeFile(version_manifest.json): find the version and
\* request its descriptor
ManifestWritten ==
  /\ pc = "manifestWrite" /\ Idle
  /\ disk' = Put(disk, ManifestPath, "data")
  /\ IF options.number \in ManifestVersions
       THEN /\ requests' = requests + 1
            /\ pc' = "descriptor"
            /\ UNCHANGED << closes, resolution >>
       ELSE /\ FailLaunch
            /\ resolution' = Resolved("error", "not found")
            /\ UNCHANGED requests
  /\ UNCHANGED << options, meta, argv, proc, launches, prior, version, dirs, calls, batch,
                  counter, progress, libs, faults, harnessVars >>

\* the same callback for a body that is not JSON: the file is written, then
\* JSON.parse(body) throws in the callback, outside every promise
ManifestWrittenBad ==
  /\ pc = "manifestWriteBad" /\ Idle
  /\ disk' = Put(disk, ManifestPath, "junk")
  /\ pc' = "crashed"
  /\ UNCHANGED << options, meta, resolution, argv, proc, launches, prior, version, dirs,
                  calls, batch, counter, progress, closes, requests, libs, faults,
                  harnessVars >>

\* the descriptor request answered with the descriptor: parse, save, resolve
DescriptorOk ==
  /\ pc = "descriptor" /\ Idle
  /\ LET body == Stringify(Descriptor(options.number, meta.lacks))
     IN /\ version' = Parse(body)
        /\ disk' = Put(disk, VersionJsonPath(options.number), Stringify(Parse(body)[1]))
  /\ dirs' = dirs \cup Prefixes(VersionDirectory(options.number))
  /\ resolution' = Resolved("online", "")
  /\ pc' = "getNatives"
  /\ UNCHANGED << options, meta, argv, proc, launches, prior, calls, batch, counter,
                  progress, closes, requests, libs, faults, harnessVars >>

\* the descriptor request answered without error but with a body that is not
\* JSON: JSON.parse(body) throws in the request callback
DescriptorUnparsable ==
  /\ pc = "descriptor" /\ Idle
  /\ faults < MaxFaults
  /\ faults' = faults + 1
  /\ pc' = "crashed"
  /\ UNCHANGED << options, meta, resolution, argv, proc, launches, prior, version, dirs,
                  disk, calls, batch, counter, progress, closes, requests, libs,
                  harnessVars >>

\* the descriptor request failed: resolve(error)
DescriptorError ==
  /\ pc = "descriptor" /\ Idle
  /\ faults < MaxFaults
  /\ faults' = faults + 1
  /\ FailLaunch
  /\ resolution' = Resolved("error", "descriptor request")
  /\ UNCHANGED << options, meta, argv, proc, launches, prior, version, dirs, disk, calls,
                  batch, counter, progress, requests, libs, harnessVars >>

(***************************************************************************)
(* Handler.getNatives.                                                     *)
(***************************************************************************)
\* `natives-${this.getOS()}`
NativesKey(os) ==
  CASE os = "windows" -> "natives-windows"
    [] os = "osx" -> "natives-osx"
    [] os = "linux" -> "natives-linux"

\* the classifier of lib for the OS, if the library has one and is not excluded
NativeOf(lib, os) ==
  IF lib.downloads = None \/ lib.downloads[1].classifiers = None THEN None
  ELSE IF parseRule(lib, os) THEN None
  ELSE LET cl == lib.downloads[1].classifiers[1]
           key == IF os = "osx"
                    THEN IF "natives-osx" \in DOMAIN cl THEN "natives-osx" ELSE "natives-macos"
                    ELSE NativesKey(os)
       IN IF key \in DOMAIN cl THEN Some(cl[key]) ELSE None

RECURSIVE NativeEntries(_, _, _)
NativeEntries(libraries, os, dir) ==
  IF libraries = << >> THEN << >>
  ELSE LET n == NativeOf(Head(libraries), os)
           rest == NativeEntries(Tail(libraries), os, dir)
       IN IF n = None THEN rest
          ELSE << [url |-> n[1].url, directory |-> dir,
                   name |-> Basename(n[1].path), check |-> TRUE] >> \o rest

\* the file zip.extractAllTo leaves in the natives directory
ExtractedName(jar) ==
  CASE jar = "lwjgl-natives.jar" -> "liblwjgl.so"
    [] jar = "jinput-natives.jar" -> "libjinput.so"
    [] jar = "text2speech-natives.jar" -> "libtext2speech.so"
    [] OTHER -> "extracted"

\* the archives left where they are and nothing extracted
ExtractNothing(d, dir) == d

\* the extract step of getNatives on the files d: every .jar of the directory
\* is extracted into it (an archive that does not open throws, which is caught
\* and logged) and then unlinked
ExtractAll(d, dir) ==
  LET jars == { f \in Readdir(d, dir) : IsJar(Basename(f)) }
      good == { f \in jars : d[f] = "data" }
      out == { Join(dir, <<ExtractedName(Basename(f))>>) : f \in good }
      kept == Remove(d, jars)
  IN [q \in (DOMAIN kept) \cup out |-> IF q \in out THEN "data" ELSE kept[q]]

GetNatives ==
  /\ pc = "getNatives"
  /\ LET id == version[1].id
         dir == NativeDirectory(id)
     IN IF Minor(id) >= 19
          THEN /\ pc' = "getJar"
               /\ UNCHANGED << dirs, disk, calls, requests, batch, counter, progress,
                               libs >>
          ELSE IF dir \in dirs /\ Readdir(disk, dir) # {}
            THEN /\ pc' = "getJar"
                 /\ UNCHANGED << dirs, disk, calls, requests, batch, counter, progress,
                                 libs >>
            ELSE /\ pc' = "nativesWait"
                 /\ Apply(StartBatch([World EXCEPT !.dirs = @ \cup Prefixes(dir),
                                                   !.batch = << >>],
                                     NativeEntries(version[1].libraries, TargetOS, dir),
                                     1, "natives", "none", disk))
  /\ UNCHANGED << options, meta, resolution, argv, proc, launches, prior, version,
                  closes, faults, harnessVars >>

\* every native download resolved: extract each .jar of the directory (a
\* failing extraction is caught) and unlink it
ExtractNatives ==
  /\ pc = "nativesWait" /\ AllDone
  /\ LET dir == NativeDirectory(version[1].id)
         jars == { f \in Readdir(disk, dir) : IsJar(Basename(f)) }
     IN /\ disk' = ExtractAll(disk, dir)
        /\ calls' = { IF Live(c) /\ c.dest \in jars THEN [c EXCEPT !.orphan = TRUE] ELSE c :
                       c \in calls }
  /\ pc' = "getJar"
  /\ UNCHANGED << options, meta, resolution, argv, proc, launches, prior, version, dirs,
                  batch, counter, progress, closes, requests, libs, faults,
                  harnessVars >>

(***************************************************************************)
(* Handler.getJar, called by launch when the jar is absent.                *)
(***************************************************************************)
GetJar ==
  /\ pc = "getJar"
  /\ LET number == options.number
     IN IF Exists(disk, McPath(number))
          THEN /\ pc' = "log4j"
               /\ UNCHANGED << dirs, disk, calls, requests, batch, counter, progress, libs,
                               closes >>
          ELSE IF ~Has(version[1], "client")
            THEN \* this.version.downloads.client.url throws in getJar: launch catches
                 /\ FailLaunch
                 /\ UNCHANGED << dirs, disk, calls, requests, batch, counter, progress,
                                 libs >>
            ELSE /\ pc' = "jarWait"
                 /\ Apply(StartBatch([World EXCEPT !.batch = << >>],
                            << [url |-> version[1].downloads.client.url,
                                directory |-> Dirname(McPath(number)),
                                name |-> Basename(McPath(number)), check |-> TRUE] >>,
                            1, "client", "none", disk))
                 /\ UNCHANGED closes
  /\ UNCHANGED << options, meta, resolution, argv, proc, launches, prior, version, faults,
                  harnessVars >>

JarDone ==
  /\ pc = "jarWait" /\ AllDone
  /\ pc' = "log4j"
  /\ UNCHANGED << options, meta, resolution, argv, proc, launches, prior, version, dirs,
                  disk, calls, batch, counter, progress, closes, requests, libs, faults,
                  harnessVars >>

(***************************************************************************)
(* launch: the log4j configuration file of versions below 1.17.            *)
(***************************************************************************)
Log4j ==
  /\ pc = "log4j"
  /\ LET f == Log4jDownload(HandlerOptions, version[1].id)
     IN IF f = None
          THEN /\ pc' = "getClasses"
               /\ UNCHANGED << dirs, disk, calls, requests, batch, counter, progress,
                               libs >>
          ELSE /\ pc' = "log4jWait"
               /\ Apply(StartBatch([World EXCEPT !.batch = << >>],
                          << [url |-> f[1].url, directory |-> Root,
                              name |-> f[1].name, check |-> FALSE] >>,
                          1, "log4j", "none", disk))
  /\ UNCHANGED << options, meta, resolution, argv, proc, launches, prior, version,
                  closes, faults, harnessVars >>

Log4jDone ==
  /\ pc = "log4jWait" /\ AllDone
  /\ pc' = "getClasses"
  /\ UNCHANGED << options, meta, resolution, argv, proc, launches, prior, version, dirs,
                  disk, calls, batch, counter, progress, closes, requests, libs, faults,
                  harnessVars >>


(***************************************************************************)
(* Handler.getClasses and Handler.downloadToDirectory.                     *)
(***************************************************************************)
\* the filter of getClasses
InClasspath(lib, os) ==
  /\ lib.downloads # None
  /\ lib.downloads[1].artifact # None
  /\ ~parseRule(lib, os)

RECURSIVE ClassEntries(_, _)
ClassEntries(libraries, os) ==
  IF libraries = << >> THEN << >>
  ELSE LET lib == Head(libraries)
           rest == ClassEntries(Tail(libraries), os)
       IN IF InClasspath(lib, os)
            THEN LET obj == lib.downloads[1].artifact[1]
                     libPath == Join(LibraryDirectory, obj.path)
                 IN << [url |-> obj.url, directory |-> Dirname(libPath),
                        name |-> Basename(libPath), check |-> TRUE] >> \o rest
            ELSE rest

\* the first event of a batch: task 0
FirstProgress(type, total) == [type |-> type, task |-> 0, total |-> total]

GetClasses ==
  /\ pc = "getClasses"
  /\ LET parsed == ClassEntries(version[1].libraries, TargetOS)
     IN Apply(StartBatch([World EXCEPT
                            !.batch = << >>,
                            !.libs = << >>,
                            !.counter = 0,
                            !.progress = Append(@, FirstProgress("classes", Len(parsed)))],
                         parsed, 1, "classes", "classes", disk))
  /\ pc' = "classesWait"
  /\ UNCHANGED << options, meta, resolution, argv, proc, launches, prior, version,
                  closes, faults, harnessVars >>

ClassesDone ==
  /\ pc = "classesWait" /\ AllDone
  /\ counter' = 0
  /\ pc' = "getAssets"
  /\ UNCHANGED << options, meta, resolution, argv, proc, launches, prior, version, dirs,
                  disk, calls, batch, progress, closes, requests, libs, faults,
                  harnessVars >>

(***************************************************************************)
(* Handler.getAssets.                                                      *)
(***************************************************************************)
RECURSIVE AssetEntries(_)
AssetEntries(names) ==
  IF names = << >> THEN << >>
  ELSE LET hash == AssetHash(Head(names))
       IN << [url |-> ResourceUrl(SubHash(hash), hash), directory |-> SubAsset(hash),
              name |-> hash, check |-> TRUE] >> \o AssetEntries(Tail(names))

GetAssets ==
  /\ pc = "getAssets"
  /\ LET ix == version[1].assetIndex
     IN IF ~Has(version[1], "assetIndex")
          THEN \* this.version.assetIndex.id throws in getAssets: launch catches
               /\ FailLaunch
               /\ UNCHANGED << dirs, disk, calls, requests, batch, counter, progress,
                               libs >>
          ELSE IF Exists(disk, IndexPath(ix.id))
            THEN /\ pc' = "assetsBatch"
                 /\ UNCHANGED << dirs, disk, calls, requests, batch, counter, progress,
                                 libs, closes >>
            ELSE /\ pc' = "indexWait"
                 /\ Apply(StartBatch([World EXCEPT !.batch = << >>],
                            << [url |-> ix.url, directory |-> Dirname(IndexPath(ix.id)),
                                name |-> IndexName(ix.id), check |-> TRUE] >>,
                            1, "asset-index", "none", disk))
                 /\ UNCHANGED closes
  /\ UNCHANGED << options, meta, resolution, argv, proc, launches, prior, version, faults,
                  harnessVars >>

IndexDone ==
  /\ pc = "indexWait" /\ AllDone
  /\ pc' = "assetsBatch"
  /\ UNCHANGED << options, meta, resolution, argv, proc, launches, prior, version, dirs,
                  disk, calls, batch, counter, progress, closes, requests, libs, faults,
                  harnessVars >>

\* JSON.parse(fs.readFileSync(indexPath)), then the batch of the objects
AssetsBatch ==
  /\ pc = "assetsBatch"
  /\ LET indexPath == IndexPath(version[1].assetIndex.id)
         entries == AssetEntries(AssetNames)
     IN IF Exists(disk, indexPath) /\ disk[indexPath] = "data"
          THEN /\ Apply(StartBatch([World EXCEPT
                                      !.batch = << >>,
                                      !.counter = 0,
                                      !.progress = Append(@, FirstProgress("assets", Len(entries)))],
                                   entries, 1, "assets", "assets", disk))
               /\ pc' = "assetsWait"
               /\ UNCHANGED closes
          ELSE \* readFileSync or JSON.parse throws: launch catches
               /\ FailLaunch
               /\ UNCHANGED << dirs, disk, calls, requests, batch, counter, progress,
                               libs >>
  /\ UNCHANGED << options, meta, resolution, argv, proc, launches, prior, version,
                  faults, harnessVars >>

AssetsDone ==
  /\ pc = "assetsWait" /\ AllDone
  /\ counter' = 0
  /\ pc' = "getLaunchOptions"
  /\ UNCHANGED << options, meta, resolution, argv, proc, launches, prior, version, dirs,
                  disk, calls, batch, progress, closes, requests, libs, faults,
                  harnessVars >>

\* cleanUp(await getClasses()) as the texts of the paths
ClassTexts == [i \in 1..Len(libs) |-> PathText(libs[i])]

\* the list launch builds from jvm, classPaths and the game arguments
BuiltArguments ==
  LaunchArguments(JvmFlags(HandlerOptions, version[1].id),
                  ClassPaths(ClassTexts, TargetOS, PathText(McPath(options.number)), version[1]),
                  getLaunchOptions(HandlerOptions, version[1]))

\* getLaunchOptions, the 'arguments' event and startMinecraft: the process is
\* spawned with the list, whatever it holds
StartMinecraft ==
  /\ pc = "getLaunchOptions"
  /\ IF ~Has(version[1], "arguments")
       THEN \* type.arguments.game throws in getLaunchOptions: launch catches
            /\ FailLaunch
            /\ UNCHANGED argv
       ELSE /\ argv' = Some([event |-> BuiltArguments, spawn |-> BuiltArguments])
            /\ pc' = "running"
            /\ UNCHANGED closes
  /\ UNCHANGED << options, meta, resolution, proc, launches, prior, version, dirs, disk,
                  calls, batch, counter, progress, requests, libs, faults, harnessVars >>

\* a chunk of the process that no listener re-emits
ChunkUnheard ==
  /\ pc = "running"
  /\ proc.chunks < MaxChunks
  /\ proc' = [proc EXCEPT !.chunks = @ + 1]
  /\ UNCHANGED << options, meta, resolution, argv, pc, launches, prior, version, dirs, disk,
                  calls, batch, counter, progress, closes, requests, libs, faults,
                  harnessVars >>

\* the process writes a chunk to stdout or stderr: one 'data' event
ProcessData ==
  /\ pc = "running"
  /\ proc.chunks < MaxChunks
  /\ proc' = [proc EXCEPT !.chunks = @ + 1, !.data = @ + 1]
  /\ UNCHANGED << options, meta, resolution, argv, pc, launches, prior, version, dirs, disk,
                  calls, batch, counter, progress, closes, requests, libs, faults,
                  harnessVars >>

\* the exit codes of the game
ExitCodes == {0, 1}

\* the process ends: 'close' with its exit code
ProcessClose ==
  /\ pc = "running"
  /\ \E code \in ExitCodes :
       /\ proc' = [proc EXCEPT !.exit = Some(code)]
       /\ closes' = Append(closes, code)
  /\ pc' = "exited"
  /\ UNCHANGED << options, meta, resolution, argv, launches, prior, version, dirs,
                  disk, calls, batch, counter, progress, requests, libs, faults,
                  harnessVars >>

(***************************************************************************)
(* The events of a download: the handlers downloadAsync registers on the   *)
(* request stream ('response', 'error') and on the write stream ('finish', *)
(* 'error').  The request library delivers 'response' at most once per     *)
(* request; it can deliver 'error' before it or after it (the socket       *)
(* timeout of handler.js:16 aborts a request whose body stalls).  The      *)
(* 'response' handler does nothing for status 200, so a 200 response and   *)
(* the 'finish' that follows its body are one step here (Finish of an      *)
(* "inflight" call).                                                       *)
(***************************************************************************)
SetCall(w, c, d) == [w EXCEPT !.calls = (@ \ {c}) \cup {d}]

\* reject(...): a pending promise becomes rejected
Rejected(c) == IF c.promise = "pending" THEN [c EXCEPT !.promise = "rejected"] ELSE c

\* the launch is awaiting the promise of c, so its rejection reaches the catch block
Caught(c) ==
  /\ c.promise = "pending"
  /\ c.waiter # None
  /\ c.launch = launches
  /\ pc \in BatchWaitPcs

\* 'response' with a status other than 200: retry, or reject
ResponseNot200(c) ==
  /\ Idle
  /\ c.st = "inflight"
  /\ faults < MaxFaults
  /\ faults' = faults + 1
  /\ IF c.retry
       THEN /\ Apply(RetryCall(SetCall(World, c, [c EXCEPT !.st = "bodyErr", !.failed = TRUE]), c))
            /\ UNCHANGED << pc, closes >>
       ELSE /\ Apply(SetCall(World, c, [Rejected(c) EXCEPT !.st = "bodyErr", !.failed = TRUE]))
            /\ IF Caught(c) THEN FailLaunch ELSE UNCHANGED << pc, closes >>
  /\ UNCHANGED << options, meta, resolution, argv, proc, launches, prior, version,
                  harnessVars >>

\* 'error' of the request stream: retry, or reject; the write stream is never ended
StreamError(c) ==
  /\ Idle
  /\ Live(c)
  /\ faults < MaxFaults
  /\ faults' = faults + 1
  /\ IF c.retry
       THEN /\ Apply(RetryCall(SetCall(World, c, [c EXCEPT !.st = "dead", !.failed = TRUE]), c))
            /\ UNCHANGED << pc, closes >>
       ELSE /\ Apply(SetCall(World, c, [Rejected(c) EXCEPT !.st = "dead", !.failed = TRUE]))
            /\ IF Caught(c) THEN FailLaunch ELSE UNCHANGED << pc, closes >>
  /\ UNCHANGED << options, meta, resolution, argv, proc, launches, prior, version,
                  harnessVars >>

\* what the file holds once the write stream of c has finished
Written(c) ==
  IF c.st = "bodyErr" THEN {"junk"}
  ELSE IF c.raced THEN {"data", "junk"} ELSE {"data"}

\* 'finish' of the write stream: the body ended and is written; resolve()
Finish(c) ==
  /\ Idle
  /\ Live(c)
  /\ ~c.wfail
  /\ \E content \in Written(c) :
       LET w0 == IF c.orphan THEN World ELSE [World EXCEPT !.disk = Put(@, c.dest, content)]
           w1 == SetCall(w0, c, [c EXCEPT !.st = "done",
                                          !.promise = IF @ = "pending" THEN "resolved" ELSE @])
       IN IF c.promise = "pending" /\ c.waiter # None
            THEN Apply(EntryDone(w1, c.launch, c.entry, c.waiter[1].ptype,
                                 c.waiter[1].total, c.dest))
            ELSE Apply(w1)
  /\ UNCHANGED << options, meta, resolution, argv, proc, pc, launches, prior, version,
                  closes, faults, harnessVars >>

\* 'error' of the write stream: reject(error)
WriteError(c) ==
  /\ Idle
  /\ Live(c)
  /\ ~c.wfail
  /\ faults < MaxFaults
  /\ faults' = faults + 1
  /\ calls' = (calls \ {c}) \cup {[Rejected(c) EXCEPT !.wfail = TRUE]}
  /\ IF Caught(c) THEN FailLaunch ELSE UNCHANGED << pc, closes >>
  /\ UNCHANGED << options, meta, resolution, argv, proc, launches, prior, version, dirs,
                  disk, batch, counter, progress, requests, libs, harnessVars >>

\* the body of a request whose write stream failed ends: nothing is written
BodyEnd(c) ==
  /\ Idle
  /\ Live(c)
  /\ c.wfail
  /\ calls' = (calls \ {c}) \cup {[c EXCEPT !.st = "done"]}
  /\ UNCHANGED << options, meta, resolution, argv, proc, pc, launches, prior, version,
                  dirs, disk, batch, counter, progress, closes, requests, libs, faults,
                  harnessVars >>

(***************************************************************************)
(* The launch pipeline as a state machine.                                 *)
(***************************************************************************)
\* a file stored under the logical name of an asset, not under its hash
LegacyAssetPath(name) == Join(AssetDirectory, <<"virtual", "legacy", name>>)

\* The launches the model runs: the options, and what the root holds before
\* the first launch (nothing; a library downloaded earlier; an asset object
\* and a file under the logical name of the other asset).
\* memory: { max: '4G', min: '2G' }
FourGigabytes == Some([max |-> MemStr("4G"), min |-> MemStr("2G")])

\* a root in which everything but the jar and the descriptor is provisioned
Provisioned ==
  { Join(LibraryDirectory, <<"com", "liba.jar">>), Join(LibraryDirectory, <<"org", "libb.jar">>),
    IndexPath("idx"), Join(SubAsset("ab1f"), <<"ab1f">>), Join(SubAsset("ab2e"), <<"ab2e">>) }

Scenarios ==
  { [number |-> "1.16.5", os |-> None, memory |-> None, lacks |-> "none", files |-> {}],
    [number |-> "1.16.5", os |-> Some("osx"), memory |-> None, lacks |-> "none",
     files |-> {Join(LibraryDirectory, <<"com", "liba.jar">>)}],
    [number |-> "1.20.1", os |-> Some("windows"), memory |-> FourGigabytes, lacks |-> "none",
     files |-> {Join(LibraryDirectory, <<"com", "liba.jar">>), ManifestPath}],
    [number |-> "1.20.1", os |-> Some("osx"), memory |-> FourGigabytes, lacks |-> "none",
     files |-> {Join(SubAsset("ab1f"), <<"ab1f">>), LegacyAssetPath("lang.json")}],
    [number |-> UnlistedVersion, os |-> None, memory |-> None, lacks |-> "none", files |-> {}] }
  \cup
  { [number |-> "1.20.1", os |-> None, memory |-> FourGigabytes, lacks |-> f,
     files |-> Provisioned] : f \in DescriptorFields }

RuleIdle == ruleIn = None /\ ruleOut = None
ArgIdle == argIn = None /\ argOut = None /\ authorization = None /\ descriptor = None
JvmIdle == jvmIn = None /\ jvmOut = None
ZipIdle == zipIn = None /\ zipOut = None
DiagIdle == diagIn = None /\ diagOut = None
ApiIdle == API_URLS = DefaultUrls /\ apiLog = << >> /\ apiOut = None
AuthIdle == authIn = None /\ authOut = None
PairIdle == clients = << >>
HarnessIdle ==
  /\ RuleIdle /\ ArgIdle /\ JvmIdle /\ ZipIdle /\ DiagIdle /\ ApiIdle /\ AuthIdle /\ PairIdle
  /\ PairIdle

Init ==
  /\ \E sc \in Scenarios :
       /\ options = [number |-> sc.number, os |-> sc.os, platform |-> "linux",
                     memory |-> sc.memory]
       /\ meta = [lacks |-> sc.lacks]
       /\ disk = [p \in sc.files |-> "data"]
  /\ pc = "idle"
  /\ launches = 0
  /\ prior = "none"
  /\ version = None
  /\ dirs = UNION { Prefixes(Dirname(p)) : p \in DOMAIN disk }
  /\ calls = {}
  /\ batch = << >>
  /\ counter = 0
  /\ progress = << >>
  /\ closes = << >>
  /\ requests = 0
  /\ libs = << >>
  /\ faults = 0
  /\ resolution = None
  /\ argv = None
  /\ proc = NoProcess
  /\ HarnessIdle

Next ==
  \/ Launch \/ JavaOk \/ JavaMissing
  \/ GetVersion \/ ManifestOk \/ ManifestUnparsable \/ ManifestError \/ ManifestOffline
  \/ ManifestWritten \/ ManifestWrittenBad
  \/ DescriptorOk \/ DescriptorUnparsable \/ DescriptorError
  \/ GetNatives \/ ExtractNatives \/ GetJar \/ JarDone \/ Log4j \/ Log4jDone
  \/ GetClasses \/ ClassesDone \/ GetAssets \/ IndexDone \/ AssetsBatch \/ AssetsDone
  \/ StartMinecraft \/ ProcessData \/ ProcessClose
  \/ \E c \in calls : ResponseNot200(c)
  \/ \E c \in calls : StreamError(c)
  \/ \E c \in calls : Finish(c)
  \/ \E c \in calls : WriteError(c)
  \/ \E c \in calls : BodyEnd(c)

Spec == Init /\ [][Next]_vars

\* every request eventually answers or errors, every stream eventually ends
\* and every continuation that can run does run: no step of the pipeline
\* that stays possible is put off forever
SpecLive == Spec /\ WF_vars(Next)


(***************************************************************************)
(* The rule evaluators on their own: parseRule with the filter of          *)
(* getClasses, and the rules of a conditional token in getLaunchOptions,   *)
(* applied to every rule list of up to MaxRules rules and every way the    *)
(* target OS can be set.  The launch pipeline stands still.                *)
(***************************************************************************)
Parked ==
  /\ options = [number |-> "1.20.1", os |-> None, platform |-> "linux", memory |-> None]
  /\ meta = [lacks |-> "none"]
  /\ resolution = None
  /\ argv = None
  /\ proc = NoProcess
  /\ pc = "idle"
  /\ launches = 0
  /\ prior = "none"
  /\ version = None
  /\ dirs = {}
  /\ disk = [p \in {} |-> "data"]
  /\ calls = {}
  /\ batch = << >>
  /\ counter = 0
  /\ progress = << >>
  /\ closes = << >>
  /\ requests = 0
  /\ libs = << >>
  /\ faults = 0

SeqsUpTo(S, n) == UNION { [1..k -> S] : k \in 0..n }

RuleKinds ==
  { Rule(action, os) : action \in {"allow", "disallow"},
                       os \in {None} \cup { Some(n) : n \in OSNames } }

RuleInputs ==
  [rules : {None} \cup { Some(l) : l \in SeqsUpTo(RuleKinds, MaxRules) },
   os : {None} \cup { Some(n) : n \in OSNames },
   platform : Platforms,
   array : BOOLEAN]

\* the library the rules are put on
RuleLibrary(rules) ==
  [name |-> "libr",
   downloads |-> Some([artifact |-> Some([path |-> <<"net", "libr.jar">>, url |-> "url:libr"]),
                       classifiers |-> None]),
   rules |-> rules]

\* a descriptor with the game arguments `game` (arguments.game) or the
\* legacy string `legacy` (minecraftArguments)
ArgsVersion(game, legacy) ==
  [minecraftArguments |-> legacy, game |-> game, assets |-> "idx",
   assetIndex |-> [id |-> "idx", url |-> "url:index"]]

\* the value of the conditional token the rules are put on
RuleValue(array) ==
  IF array THEN << Str("--width"), Str("${resolution_width}") >> ELSE << Str("--demo") >>

\* the conditional token, between two plain tokens
RuleToken(in) ==
  [t |-> "object", v |-> "", rules |-> in.rules,
   value |-> [arr |-> in.array, items |-> RuleValue(in.array)]]

RuleArgs(in) == << Str("--pre"), RuleToken(in), Str("--post") >>

RuleTarget == getOS(ruleIn[1].os, ruleIn[1].platform)

\* getClasses filters the library with parseRule
EvalLibrary ==
  /\ ruleIn # None
  /\ ruleOut.lib = None
  /\ LET lib == RuleLibrary(ruleIn[1].rules)
     IN ruleOut' = [ruleOut EXCEPT !.lib = Some([excluded |-> parseRule(lib, RuleTarget),
                                                 parsed |-> ClassEntries(<< lib >>, RuleTarget)])]
  /\ UNCHANGED << pipeVars, ruleIn, argVars, jvmVars, zipVars, diagVars, apiVars, authVars,
                  pairVars >>

\* getLaunchOptions expands the conditional token
EvalToken ==
  /\ ruleIn # None
  /\ ruleOut.tok = None
  /\ LET in == ruleIn[1]
     IN ruleOut' = [ruleOut EXCEPT !.tok =
                      Some(getLaunchOptions(LaunchOptions(in.os, in.platform, None, None),
                                            ArgsVersion(RuleArgs(in), << >>)))]
  /\ UNCHANGED << pipeVars, ruleIn, argVars, jvmVars, zipVars, diagVars, apiVars, authVars,
                  pairVars >>

InitRule ==
  /\ Parked
  /\ \E in \in RuleInputs : ruleIn = Some(in)
  /\ ruleOut = [lib |-> None, tok |-> None]
  /\ ArgIdle /\ JvmIdle /\ ZipIdle /\ DiagIdle /\ ApiIdle /\ AuthIdle /\ PairIdle

NextRule == EvalLibrary \/ EvalToken

SpecRule == InitRule /\ [][NextRule]_vars

(***************************************************************************)
(* getLaunchOptions on its own, applied to every list of up to MaxArgs     *)
(* tokens of the shapes below (or to a legacy argument string), with and   *)
(* without customLaunchArgs and a window.                                  *)
(***************************************************************************)
TokenShapes ==
  { Str("--username"), Str("${auth_player_name}"), Str("${resolution_width}"),
    Str("${auth_session}"),
    CondOne(<< Rule("allow", Some("linux")) >>, Str("--demo")),
    CondList(<< Rule("allow", Some("linux")) >>, << Str("--width"), Str("${resolution_width}") >>),
    CondList(<< Rule("allow", Some("osx")) >>, << >>),
    CondOne(<< Rule("allow", Some("linux")) >>, Str("${auth_player_name}")),
    CondList(<< Rule("allow", Some("linux")) >>, << Str("${auth_uuid}"), Str("${version_name}") >>) }

\* minecraftArguments of old descriptors: space-free runs and spaces
LegacyStrings ==
  { << "--username", " ", "${auth_player_name}", " ", "--session", " ", "${auth_session}" >>,
    << "${auth_player_name}", " ", " ", "--demo" >> }

Windows ==
  { None,
    Some([width |-> Some("1280"), height |-> Some("720"), fullscreen |-> FALSE]),
    Some([width |-> None, height |-> None, fullscreen |-> TRUE]) }

CustomArgs == { None, Some(<< Str("${auth_player_name}"), Str("--server") >>) }

ArgInputs ==
  [game : SeqsUpTo(TokenShapes, MaxArgs), legacy : {<< >>},
   os : {None, Some("osx")}, window : Windows, custom : CustomArgs, auth : {Steve, Alex}]
  \cup
  [game : {<< >>}, legacy : LegacyStrings,
   os : {None, Some("osx")}, window : Windows, custom : CustomArgs, auth : {Steve, Alex}]

ArgOptions(in) ==
  [LaunchOptions(in.os, "linux", in.window, in.custom) EXCEPT !.authorization = in.auth]

BuildArgs ==
  /\ argIn # None
  /\ argOut = None
  /\ argOut' = Some(getLaunchOptions(ArgOptions(argIn[1]), descriptor[1]))
  /\ authorization' = Some(AuthorizationAfter(authorization[1]))
  /\ descriptor' = Some(VersionAfter(ArgOptions(argIn[1]), descriptor[1]))
  /\ UNCHANGED << pipeVars, argIn, ruleVars, jvmVars, zipVars, diagVars, apiVars, authVars,
                  pairVars >>

InitArgs ==
  /\ Parked
  /\ \E in \in ArgInputs :
       /\ argIn = Some(in)
       /\ authorization = Some(in.auth)
       /\ descriptor = Some(ArgsVersion(in.game, in.legacy))
  /\ argOut = None
  /\ RuleIdle /\ JvmIdle /\ ZipIdle /\ DiagIdle /\ ApiIdle /\ AuthIdle /\ PairIdle

NextArgs == BuildArgs

SpecArgs == InitArgs /\ [][NextArgs]_vars

(***************************************************************************)
(* The JVM flags on their own: the array jvm of launch and the log4j file  *)
(* it downloads, for every version id of VersionIds, every way the target  *)
(* OS can be set, and the memory and customArgs options below.             *)
(***************************************************************************)
Memories ==
  { None, FourGigabytes,
    Some([max |-> MemNum(2048), min |-> MemNum(512)]),
    Some([max |-> MemNum(256), min |-> MemNum(512)]),
    Some([max |-> MemNum(512), min |-> MemNum(512)]) }

JvmCustomArgs ==
  { None, Some(<< Str("-Dfile.encoding=UTF-8") >>),
    Some(<< Str("-Dlog4j.configurationFile=custom.xml") >>) }

JvmInputs ==
  [id : VersionIds, os : {None} \cup { Some(n) : n \in OSNames },
   memory : Memories, customArgs : JvmCustomArgs]

JvmHarnessOptions(in) ==
  JvmOptions(LaunchOptions(in.os, "linux", None, None), in.id, in.memory, in.customArgs)

BuildJvm ==
  /\ jvmIn # None
  /\ jvmOut = None
  /\ jvmOut' = Some([jvm |-> JvmFlags(JvmHarnessOptions(jvmIn[1]), jvmIn[1].id),
                     download |-> Log4jDownload(JvmHarnessOptions(jvmIn[1]), jvmIn[1].id)])
  /\ UNCHANGED << pipeVars, jvmIn, ruleVars, argVars, zipVars, diagVars, apiVars, authVars,
                  pairVars >>

InitJvm ==
  /\ Parked
  /\ \E in \in JvmInputs : jvmIn = Some(in)
  /\ jvmOut = None
  /\ RuleIdle /\ ArgIdle /\ ZipIdle /\ DiagIdle /\ ApiIdle /\ AuthIdle /\ PairIdle

NextJvm == BuildJvm

SpecJvm == InitJvm /\ [][NextJvm]_vars

(***************************************************************************)
(* The extract step of getNatives on its own, on a natives directory that  *)
(* holds any of three archives, each complete or not a readable archive,   *)
(* and files that are no archives.                                         *)
(***************************************************************************)
ArchiveNames == {"lwjgl-natives.jar", "jinput-natives.jar", "text2speech-natives.jar"}
OtherNames == {"liblwjgl.so", "readme.txt"}

\* the contents a natives directory can have
ZipInputs ==
  UNION { [ { Join(NativeDirectory("1.16.5"), <<n>>) : n \in names } -> {"data", "junk"} ] :
            names \in SUBSET (ArchiveNames \cup OtherNames) }

ExtractStep ==
  /\ zipIn # None
  /\ zipOut = None
  /\ zipOut' = Some(ExtractAll(zipIn[1], NativeDirectory("1.16.5")))
  /\ UNCHANGED << pipeVars, zipIn, ruleVars, argVars, jvmVars, diagVars, apiVars, authVars,
                  pairVars >>

InitZip ==
  /\ Parked
  /\ \E in \in ZipInputs : zipIn = Some(in)
  /\ zipOut = None
  /\ RuleIdle /\ ArgIdle /\ JvmIdle /\ DiagIdle /\ ApiIdle /\ AuthIdle /\ PairIdle

NextZip == ExtractStep

SpecZip == InitZip /\ [][NextZip]_vars

(***************************************************************************)
(* The debug events of a launch that fails, by the place where it fails:   *)
(* checkJava, getVersion, a stage that throws, or the start of the         *)
(* process.  A message is the list of the strings it is made of.  Two      *)
(* launches are compared that differ in the access token only.             *)
(***************************************************************************)
FailurePoints == {"java", "version", "stage", "spawn"}

\* `[VoidBeam]: Launching with arguments ${launchArguments.join(' ')}`
LaunchingMessage(launchArguments) ==
  << Str("[VoidBeam]: Launching with arguments") >> \o launchArguments

\* `[VoidBeam]: Failed to start due to ${e}, closing...`
FailedMessage(e) == << Str("[VoidBeam]: Failed to start due to"), Str(e), Str(", closing...") >>

\* the debug events that depend on where launch fails; a failure at the
\* start of the process (child.spawn throwing, or a child without stdout)
\* comes after the 'arguments' event and the message that lists the arguments
LaunchDebugs(o, ver, point) ==
  CASE point = "java" ->
         << << Str("[VoidBeam]: Couldn't start Minecraft due to:"), Str("java.message") >> >>
    [] point = "version" -> << << Str("[VoidBeam]:"), Str("versionFile.message") >> >>
    [] point = "stage" -> << FailedMessage("TypeError") >>
    [] point = "spawn" ->
         << LaunchingMessage(
              LaunchArguments(JvmFlags(o, ver.id),
                              ClassPaths(<< >>, getOS(o.os, o.platform),
                                         PathText(McPath(o.number)), ver),
                              getLaunchOptions(o, ver))),
            FailedMessage("spawn error") >>

DiagTokens ==
  { Str("--accessToken"), Str("${auth_access_token}"), Str("--username"),
    Str("${auth_player_name}") }

DiagInputs == [game : SeqsUpTo(DiagTokens, MaxArgs), point : FailurePoints]

\* the options of a launch of 1.20.1 with the identity
DiagOptions(auth) ==
  JvmOptions([LaunchOptions(None, "linux", None, None) EXCEPT !.authorization = auth],
             "1.20.1", None, None)

\* the identity with another access token
OtherToken(auth) == [auth EXCEPT !.access_token = "token-9"]

FailedLaunches ==
  /\ diagIn # None
  /\ diagOut = None
  /\ LET ver == [VersionJson("1.20.1") EXCEPT !.game = diagIn[1].game]
     IN diagOut' = Some([first |-> LaunchDebugs(DiagOptions(Steve), ver, diagIn[1].point),
                         second |-> LaunchDebugs(DiagOptions(OtherToken(Steve)), ver,
                                                 diagIn[1].point)])
  /\ UNCHANGED << pipeVars, diagIn, ruleVars, argVars, jvmVars, zipVars, apiVars, authVars,
                  pairVars >>

InitDiag ==
  /\ Parked
  /\ \E in \in DiagInputs : diagIn = Some(in)
  /\ diagOut = None
  /\ RuleIdle /\ ArgIdle /\ JvmIdle /\ ZipIdle /\ ApiIdle /\ AuthIdle /\ PairIdle

NextDiag == FailedLaunches

SpecDiag == InitDiag /\ [][NextDiag]_vars

(***************************************************************************)
(* The endpoints of the authenticator: changeApiUrl, getApiUrls and        *)
(* resetApiUrls, called in any order.  apiLog keeps the calls that may     *)
(* write the endpoints, with what was passed and whether the call threw.   *)
(***************************************************************************)
MaxCalls == 3

UrlValues ==
  { UrlText(<< >>), UrlText(<< "u" >>), UrlText(<< "u", "/" >>), UrlText(<< "u", "/", "/" >>),
    NullUrl, NumberUrl }

\* the second argument of changeApiUrl; None when it is left out
Services == { Some("yggdrasil"), Some("all"), Some("microsoft"), None }

\* service = 'yggdrasil' when the argument is left out
ServiceOf(service) == IF service = None THEN "yggdrasil" ELSE service[1]

\* { ...API_URLS }
getApiUrlsValue(urls) == [yggdrasil |-> urls.yggdrasil, microsoft |-> urls.microsoft]

changeApiUrl(url, service) ==
  /\ Len(apiLog) < MaxCalls
  /\ IF Falsy(url) \/ url.type # "string"
       THEN /\ apiOut' = Some(Threw("URL is required and must be a string"))
            /\ API_URLS' = API_URLS
       ELSE /\ API_URLS' =
                 IF ServiceOf(service) \in {"yggdrasil", "all"}
                   THEN [API_URLS EXCEPT !.yggdrasil = Endpoints(BaseUrl(url.chars))]
                 ELSE API_URLS
            /\ apiOut' = Some(Returned(getApiUrlsValue(API_URLS')))
  /\ apiLog' = Append(apiLog, [op |-> "changeApiUrl", url |-> url, service |-> service,
                               threw |-> apiOut'[1].threw])
  /\ UNCHANGED << pipeVars, ruleVars, argVars, jvmVars, zipVars, diagVars, authVars,
                  pairVars >>

getApiUrls ==
  /\ apiOut' = Some(Returned(getApiUrlsValue(API_URLS)))
  /\ UNCHANGED << API_URLS, apiLog >>
  /\ UNCHANGED << pipeVars, ruleVars, argVars, jvmVars, zipVars, diagVars, authVars,
                  pairVars >>

resetApiUrls ==
  /\ Len(apiLog) < MaxCalls
  /\ API_URLS' = [API_URLS EXCEPT !.yggdrasil = MojangEndpoints]
  /\ apiOut' = Some(Returned(getApiUrlsValue(API_URLS')))
  /\ apiLog' = Append(apiLog, [op |-> "resetApiUrls", url |-> NullUrl, service |-> None,
                               threw |-> FALSE])
  /\ UNCHANGED << pipeVars, ruleVars, argVars, jvmVars, zipVars, diagVars, authVars,
                  pairVars >>

InitApi ==
  /\ Parked
  /\ ApiIdle
  /\ RuleIdle /\ ArgIdle /\ JvmIdle /\ ZipIdle /\ DiagIdle /\ AuthIdle /\ PairIdle

NextApi ==
  \/ \E url \in UrlValues, service \in Services : changeApiUrl(url, service)
  \/ getApiUrls
  \/ resetApiUrls

SpecApi == InitApi /\ [][NextApi]_vars

(***************************************************************************)
(* The authentication functions, called twice: the calls are any two of    *)
(* getOfflineAuth, getAuth in its two forms, and refreshAuth.              *)
(***************************************************************************)
MaxName == 2

\* the character codes of 'S' and 't'
NameCodes == {83, 116}

Usernames == SeqsUpTo(NameCodes, MaxName) \ { << >> }

Tokens == { << "token-1" >>, << "token-2" >> }

AuthCalls ==
  [fn : {"getOfflineAuth", "getAuth(options)", "getAuth"}, name : Usernames,
   password : {None}, type : {None, Some("offline")}, access : {<< >>}, client : {<< >>}]
  \cup [fn : {"getAuth(options)", "getAuth"}, name : Usernames, password : {Some("secret")},
        type : {Some("yggdrasil"), Some("microsoft")}, access : {<< >>}, client : {<< >>}]
  \cup [fn : {"refreshAuth"}, name : {<< >>}, password : {None},
        type : {None, Some("offline"), Some("microsoft"), Some("yggdrasil")},
        access : Tokens, client : Tokens]

RunAuth(call) ==
  CASE call.fn = "getOfflineAuth" -> getOfflineAuth(call)
    [] call.fn = "refreshAuth" -> refreshAuth(call)
    [] OTHER -> getAuth(call)

Authenticate ==
  /\ authIn # None
  /\ authOut = None
  /\ authOut' = Some([first |-> RunAuth(authIn[1].first), second |-> RunAuth(authIn[1].second)])
  /\ UNCHANGED << pipeVars, authIn, ruleVars, argVars, jvmVars, zipVars, diagVars, apiVars,
                  pairVars >>

InitAuth ==
  /\ Parked
  /\ \E first \in AuthCalls, second \in AuthCalls :
       authIn = Some([first |-> first, second |-> second])
  /\ authOut = None
  /\ RuleIdle /\ ArgIdle /\ JvmIdle /\ ZipIdle /\ DiagIdle /\ ApiIdle /\ PairIdle

NextAuth == Authenticate

SpecAuth == InitAuth /\ [][NextAuth]_vars

(***************************************************************************)
(* Two clients of one process, each running one batch of downloads         *)
(* (downloadToDirectory or the asset batch of getAssets).  Both handlers   *)
(* are of the same module and use its variable counter.  A client is       *)
(*   stage   "idle", "batch" (inside Promise.all) or "done"                *)
(*   total   the number of entries of its batch                            *)
(*   left    the entries whose async function has not ended                *)
(*   tasks   the task of the progress events it emitted, in order          *)
(***************************************************************************)
MaxTotal == 2

ClientIds == {1, 2}

\* counter = 0; this.client.emit('progress', { type, task: 0, total })
BatchStarts(k) ==
  /\ clients[k].stage = "idle"
  /\ counter' = 0
  /\ clients' = [clients EXCEPT ![k].stage = "batch", ![k].tasks = Append(@, 0)]

\* counter++; this.client.emit('progress', { type, task: counter, total })
EntryEnds(k) ==
  /\ clients[k].stage = "batch"
  /\ clients[k].left > 0
  /\ counter' = CountEntry(counter)
  /\ clients' = [clients EXCEPT ![k].left = @ - 1, ![k].tasks = Append(@, counter')]

\* Promise.all resolved; counter = 0
BatchEnds(k) ==
  /\ clients[k].stage = "batch"
  /\ clients[k].left = 0
  /\ counter' = 0
  /\ clients' = [clients EXCEPT ![k].stage = "done"]

\* what the clients leave alone
PairFrame ==
  /\ UNCHANGED << options, pc, launches, prior, version, dirs, disk, calls, batch,
                  progress, closes, requests, libs, faults, meta, resolution, argv, proc >>
  /\ UNCHANGED << ruleVars, argVars, jvmVars, zipVars, diagVars, apiVars, authVars >>

InitPair ==
  /\ Parked
  /\ \E totals \in [ClientIds -> 1..MaxTotal] :
       clients = [k \in ClientIds |->
                    [stage |-> "idle", total |-> totals[k], left |-> totals[k],
                     tasks |-> << >>]]
  /\ RuleIdle /\ ArgIdle /\ JvmIdle /\ ZipIdle /\ DiagIdle /\ ApiIdle /\ AuthIdle

NextPair ==
  \/ \E k \in ClientIds : BatchStarts(k) /\ PairFrame
  \/ \E k \in ClientIds : EntryEnds(k) /\ PairFrame
  \/ \E k \in ClientIds : BatchEnds(k) /\ PairFrame

SpecPair == InitPair /\ [][NextPair]_vars

(***************************************************************************)
(* Properties of the download helper and of the launch pipeline.           *)
(***************************************************************************)
\* the downloadAsync invocations made for one pipeline call: the call itself
\* and the calls its retry branch made
Tries(c) == { d \in calls : SameEntry(d, c.launch, c.type, c.entry) }

\* C1: a download called by the pipeline (retry = true) fetches its URL at
\* most twice: a second fetch is made only after the first failed, with the
\* same URL, directory and file name, and a failed second attempt starts no
\* further fetch (it is called with retry = false).
C1_AtMostTwoFetches ==
  \A c \in calls : c.retry =>
    /\ Cardinality(Tries(c)) <= 2
    /\ \A d \in Tries(c) \ {c} :
         /\ c.failed
         /\ d.url = c.url /\ d.directory = c.directory /\ d.name = c.name
         /\ ~d.retry

\* C2: when the first attempt of a pipeline download and its retry have both
\* failed, the promise of the pipeline's call is rejected and the launch that
\* awaits it has aborted: close 1 emitted, no process spawned.
C2_DoubleFailureAborts ==
  \A c \in calls :
    (/\ c.retry /\ c.launch = launches /\ c.failed
     /\ \E d \in Tries(c) : d.attempt = 2 /\ d.failed)
    => (c.promise = "rejected" /\ pc = "failed" /\ closes = << 1 >>)

\* path.join(assetDirectory, 'objects', hash.substring(0, 2), hash)
HashPath(hash) == Join(AssetDirectory, <<"objects", SubHash(hash), hash>>)

\* C3: for every entry of a stage that tests its destination (the jar, the
\* libraries, the natives, the asset index, the asset objects), a download is
\* made only if the destination did not exist when the entry was tested; a
\* file found present gets no download and no write stream from the launch;
\* the destination of an asset object is its hash path, so a file under the
\* asset's logical name never stands for it.
C3_FetchOnlyWhenAbsent ==
  \A k \in 1..Len(batch) :
    LET row == batch[k] IN
      row.checked =>
        /\ (\E c \in calls : SameEntry(c, launches, row.type, k)) => ~row.existed
        /\ row.existed => ~(\E c \in calls : c.launch = launches /\ c.dest = row.dest)
        /\ row.type = "assets" => row.dest = HashPath(AssetHash(AssetNames[k]))

\* an asset batch in which the first object was present and skipped and the
\* second, present only under its logical name, was downloaded
C3_Witness ==
  /\ pc = "assetsWait" /\ AllDone
  /\ Len(batch) = 2
  /\ batch[1].existed /\ ~batch[2].existed
  /\ Exists(disk, LegacyAssetPath(AssetNames[2]))
  /\ \E c \in calls : SameEntry(c, launches, "assets", 2) /\ c.st = "done"
  /\ ~(\E c \in calls : SameEntry(c, launches, "assets", 1))

\* C4: a launch that follows a launch which spawned the game after stages in
\* which nothing failed, with the same options and root, makes no network
\* request and opens no write stream (so it changes no provisioned file).
C4_SecondLaunchFetchesNothing ==
  (prior = "running" /\ faults = 0) =>
    /\ requests = 0
    /\ \A c \in calls : c.launch # launches

\* the progress events of one type emitted by the running launch
EventsOf(type) == SelectSeq(progress, LAMBDA e : e.type = type)

\* the stage that reports progress with the type
ProgressWaitPc(type) == IF type = "classes" THEN "classesWait" ELSE "assetsWait"

TypeStage(type) ==
  CASE type = "natives" -> 1
    [] type = "client" -> 2
    [] type = "log4j" -> 3
    [] type = "classes" -> 4
    [] type \in {"asset-index", "assets"} -> 5

\* the stage the launch stands in (6: argument construction and spawn; 0: the
\* launch has not reached the stages, or is over)
PcStage(p) ==
  CASE p \in {"getNatives", "nativesWait"} -> 1
    [] p \in {"getJar", "jarWait"} -> 2
    [] p \in {"log4j", "log4jWait"} -> 3
    [] p \in {"getClasses", "classesWait"} -> 4
    [] p \in {"getAssets", "indexWait", "assetsBatch", "assetsWait"} -> 5
    [] p \in {"getLaunchOptions", "running"} -> 6
    [] OTHER -> 0

\* C6: the stages of a launch run one after the other: while the launch
\* stands in a stage, no download of an earlier stage of the launch is still
\* in flight, and the arguments are built and the game spawned with no
\* download of the launch in flight.
C6_NoEarlierStageInFlight ==
  \A c \in calls :
    (c.launch = launches /\ Live(c) /\ PcStage(pc) > 0) => TypeStage(c.type) >= PcStage(pc)

(***************************************************************************)
(* Properties of the rule evaluators and of the argument builder.          *)
(***************************************************************************)
\* a rule without an OS constraint matches every OS, a rule with one matches
\* that OS only
Matches(rule, os) == rule.os = None \/ rule.os[1] = os

MatchingRules(rules, os) == { i \in 1..Len(rules) : Matches(rules[i], os) }

Last(S) == CHOOSE i \in S : \A j \in S : j <= i

\* C7: parseRule reports a library as included exactly when it has no rules
\* (absent or an empty list) or the last rule of the list that matches the
\* target OS has action allow; rules that do not match have no effect.
C7_LastMatchingRuleWins ==
  (ruleIn # None /\ ruleOut.lib # None) =>
    LET rules == ruleIn[1].rules
        included == ~ruleOut.lib[1].excluded
    IN included <=>
         \/ rules = None
         \/ rules[1] = << >>
         \/ LET M == MatchingRules(rules[1], RuleTarget)
            IN M # {} /\ rules[1][Last(M)].action = "allow"

\* what getLaunchOptions returns for RuleArgs when the token is kept, and
\* when it is dropped
TokenKept ==
  ruleOut.tok[1] =
    << Str("--pre") >>
    \o (IF ruleIn[1].array THEN << Str("--width"), Num("856") >> ELSE << Str("--demo") >>)
    \o << Str("--post") >>

TokenDropped == ruleOut.tok[1] = << Str("--pre"), Str("--post") >>

\* C8: for all OS names A and T, a token whose rules are exactly
\* [{allow, os: A}] is in the game arguments when T = A and dropped
\* otherwise, and a library whose rules are exactly [{allow, os: A}] is in
\* the list getClasses downloads when T = A and left out otherwise.
C8_SingleAllowRule ==
  \A A \in OSNames :
    (ruleIn # None /\ ruleIn[1].rules = Some(<< Rule("allow", Some(A)) >>)) =>
      /\ ruleOut.tok # None =>
           IF RuleTarget = A THEN TokenKept ELSE TokenDropped
      /\ ruleOut.lib # None =>
           IF RuleTarget = A
             THEN Len(ruleOut.lib[1].parsed) = 1 /\ ruleOut.lib[1].parsed[1].name = "libr.jar"
             ELSE ruleOut.lib[1].parsed = << >>

\* the rules [{allow, os: windows}] evaluated on a win32 host with no
\* options.os: the token's array value and the library are both kept
C8_Witness ==
  /\ ruleIn # None
  /\ ruleIn[1].rules = Some(<< Rule("allow", Some("windows")) >>)
  /\ ruleIn[1].os = None /\ ruleIn[1].platform = "win32" /\ ruleIn[1].array
  /\ ruleOut.tok # None /\ TokenKept
  /\ ruleOut.lib # None /\ Len(ruleOut.lib[1].parsed) = 1

\* C9: a token that carries a rule list is in the game arguments if and only
\* if at least one rule of the list with action allow matches the target OS.
C9_ConditionalTokensOptIn ==
  (ruleIn # None /\ ruleIn[1].rules # None /\ ruleOut.tok # None) =>
    LET rules == ruleIn[1].rules[1]
        allowed == \E i \in 1..Len(rules) :
                     rules[i].action = "allow" /\ Matches(rules[i], RuleTarget)
    IN IF allowed THEN TokenKept ELSE TokenDropped

\* what the claim gives for one token of the argument list: a literal token
\* that is a key of the table becomes the table's value, any other literal
\* token stays; a conditional token gives what getLaunchOptions makes of it
TokenOut(tok, in) ==
  LET fields == Fields(ArgOptions(in), ArgsVersion(in.game, in.legacy))
  IN IF tok.t = "object"
       THEN Printable(ReplaceLoop(<< tok >>, 1, fields, getOS(in.os, "linux")))
       ELSE IF tok.v \in DOMAIN fields THEN << fields[tok.v] >> ELSE << tok >>

RECURSIVE TokensOut(_, _)
TokensOut(toks, in) ==
  IF toks = << >> THEN << >> ELSE TokenOut(Head(toks), in) \o TokensOut(Tail(toks), in)

\* the tokens getLaunchOptions starts from
ArgTokens(in) ==
  (IF in.legacy # << >> THEN Split(in.legacy) ELSE in.game)
  \o (IF in.custom # None THEN in.custom[1] ELSE << >>)

\* C10: every literal token of the game arguments (structured list or split
\* legacy string) and of customLaunchArgs that is one of the eleven keys is
\* replaced at its position by the table's value, and every other literal
\* token appears unchanged at its position: the result is, token by token,
\* the outputs of the tokens, followed by the window arguments.
C10_SubstitutionInPlace ==
  argOut # None =>
    argOut[1] = TokensOut(ArgTokens(argIn[1]), argIn[1]) \o WindowArgs(argIn[1].window)

(***************************************************************************)
(* The command line.                                                       *)
(***************************************************************************)
\* the list the process was spawned with
Spawned == argv[1].spawn

\* the positions of a token in a list
Positions(list, tok) == { i \in 1..Len(list) : list[i] = tok }

\* the pieces of the library paths joined by sep, then sep, then the jar path
JoinedThenJar(paths, sep, jar) ==
  [k \in 1..(2 * Len(paths) + (IF paths = << >> THEN 2 ELSE 1)) |->
     IF paths = << >> THEN (IF k = 1 THEN Str(sep) ELSE Str(jar))
     ELSE IF k = 2 * Len(paths) + 1 THEN Str(jar)
     ELSE IF k % 2 = 0 THEN Str(sep)
     ELSE Str(PathText(paths[(k + 1) \div 2]))]

\* C11: when a process is spawned for a descriptor that names a main class,
\* the list holds '-cp' exactly once, the token after it is one string made
\* of the library paths joined by the separator, then the separator and the
\* runtime jar path, and the token after that is the main class; the
\* separator is ';' when the target OS is windows and ':' otherwise.
C11_ClasspathTokens ==
  (argv # None /\ Has(version[1], "mainClass")) =>
    /\ Cardinality(Positions(Spawned, Str("-cp"))) = 1
    /\ \A i \in Positions(Spawned, Str("-cp")) :
         /\ i + 2 <= Len(Spawned)
         /\ Spawned[i + 1] =
              Pieces(JoinedThenJar(libs, IF TargetOS = "windows" THEN ";" ELSE ":",
                                   PathText(McPath(options.number))))
         /\ Spawned[i + 2] = Str(version[1].mainClass)

\* a windows launch has spawned with two libraries on the class path
C11_Witness ==
  /\ argv # None /\ Len(libs) >= 2
  /\ TargetOS = "windows"
  /\ Has(version[1], "mainClass")
  /\ \E i \in Positions(Spawned, Str("-cp")) :
       Spawned[i + 1].value.items[2] = Str(";")

\* the tokens of a list from position i on
From(list, i) == SubSeq(list, i, Len(list))

\* the last element of a list
Final(list) == list[Len(list)]

\* C12: with memory {max: '4G', min: '2G'} and a complete descriptor, the
\* list the process is spawned with is the list of the 'arguments' event and
\* is, in this order: the JVM flags, with -Xmx4G and -Xms2G among them;
\* '-cp'; a classpath string ending in the runtime jar path; the main class;
\* the game arguments, in which the token after --username is the identity's
\* display name and no ${auth_player_name} is left.
C12_EndToEndComposition ==
  (argv # None /\ options.memory = FourGigabytes /\ meta.lacks = "none") =>
    /\ argv[1].event = argv[1].spawn
    /\ \E i \in Positions(Spawned, Str("-cp")) :
         /\ SubSeq(Spawned, 1, i - 1) = JvmFlags(HandlerOptions, version[1].id)
         /\ Positions(SubSeq(Spawned, 1, i - 1), Str("-Xmx4G")) # {}
         /\ Positions(SubSeq(Spawned, 1, i - 1), Str("-Xms2G")) # {}
         /\ Final(Spawned[i + 1].value.items) = Str(PathText(McPath(options.number)))
         /\ Spawned[i + 2] = Str(version[1].mainClass)
         /\ From(Spawned, i + 3) = getLaunchOptions(HandlerOptions, version[1])
         /\ \E k \in (i + 3)..(Len(Spawned) - 1) :
              Spawned[k] = Str("--username") /\ Spawned[k + 1] = Str(Steve.name)
    /\ Positions(Spawned, Str("${auth_player_name}")) = {}

\* a launch with that memory has spawned after downloading the descriptor,
\* the jar, a library and an asset
C12_Witness ==
  /\ argv # None /\ options.memory = FourGigabytes /\ meta.lacks = "none"
  /\ resolution = Resolved("online", "")
  /\ \E c \in calls : c.launch = launches /\ c.type = "classes"
  /\ \E c \in calls : c.launch = launches /\ c.type = "assets"
  /\ Positions(Spawned, Str("-Xmx4G")) # {}

\* the three flags of the log4j patch
ConfigurationFlag112 == Str("-Dlog4j.configurationFile=log4j2_112-116.xml")
ConfigurationFlag17 == Str("-Dlog4j.configurationFile=log4j2_17-111.xml")
NoLookupsFlag == Str("-Dlog4j2.formatMsgNoLookups=true")

\* the flags of the patch that a list holds, in the order it holds them
RECURSIVE PatchFlags(_)
PatchFlags(list) ==
  IF list = << >> THEN << >>
  ELSE (IF Head(list) \in {ConfigurationFlag112, ConfigurationFlag17, NoLookupsFlag}
          THEN << Head(list) >> ELSE << >>) \o PatchFlags(Tail(list))

\* no custom log4j flag was supplied
NoCustomLog4j(in) ==
  in.customArgs = None \/ \A i \in 1..Len(in.customArgs[1]) : ~IsLog4jFlag(in.customArgs[1][i])

\* C13: with no custom log4j flag, on the minor component m and the patch
\* component of the id: for 12 <= m <= 16 log4j2_112-116.xml is downloaded
\* and its configuration flag is the last flag of jvm; for 7 <= m <= 11 the
\* same with log4j2_17-111.xml; for m = 17 and for m = 18 without a patch
\* component the last flag is -Dlog4j2.formatMsgNoLookups=true, with no
\* configuration flag and no download; for every other id jvm holds none of
\* the three flags and nothing is downloaded.
C13_Log4jPatchTable ==
  (jvmOut # None /\ NoCustomLog4j(jvmIn[1])) =>
    LET parts == VersionParts(jvmIn[1].id)
        m == parts[2]
        jvm == jvmOut[1].jvm
        file == jvmOut[1].download
    IN CASE 12 <= m /\ m <= 16 ->
              /\ file # None /\ file[1].name = "log4j2_112-116.xml"
              /\ PatchFlags(jvm) = << ConfigurationFlag112 >>
              /\ Final(jvm) = ConfigurationFlag112
         [] 7 <= m /\ m <= 11 ->
              /\ file # None /\ file[1].name = "log4j2_17-111.xml"
              /\ PatchFlags(jvm) = << ConfigurationFlag17 >>
              /\ Final(jvm) = ConfigurationFlag17
         [] m = 17 \/ (m = 18 /\ Len(parts) = 2) ->
              /\ file = None
              /\ PatchFlags(jvm) = << NoLookupsFlag >>
              /\ Final(jvm) = NoLookupsFlag
         [] OTHER -> file = None /\ PatchFlags(jvm) = << >>

\* the flags were built for 1.16.5 with a custom argument that is no log4j flag
C13_Witness ==
  /\ jvmOut # None /\ jvmIn[1].id = "1.16.5"
  /\ jvmIn[1].customArgs # None /\ NoCustomLog4j(jvmIn[1])
  /\ Final(jvmOut[1].jvm) = ConfigurationFlag112

(***************************************************************************)
(* Properties of getVersion.                                               *)
(***************************************************************************)
\* <root>/versions/<id>/<id>.json of the requested id
DescriptorFile == VersionJsonPath(options.number)

\* C14: a getVersion that finds the descriptor file of the requested id
\* returns its parsed content and sends no request; a getVersion that
\* succeeds online leaves the descriptor it returns in that file and the
\* manifest in <cache>/json/version_manifest.json; and a descriptor file,
\* once there, keeps its content, so that a later getVersion for the id
\* returns an equal descriptor with no request.
C14_VersionCacheRoundTrip ==
  [][/\ (pc = "getVersion" /\ pc' # pc /\ Exists(disk, DescriptorFile)) =>
          /\ pc' = "getNatives"
          /\ version' = Parse(disk[DescriptorFile])
          /\ requests' = requests
     /\ (pc = "descriptor" /\ pc' = "getNatives") =>
          /\ version' = Some(Descriptor(options.number, meta.lacks))
          /\ Exists(disk', DescriptorFile)
          /\ Parse(disk'[DescriptorFile]) = version'
          /\ Exists(disk', ManifestPath) /\ disk'[ManifestPath] = "data"
     /\ Exists(disk, DescriptorFile) =>
          Exists(disk', DescriptorFile) /\ disk'[DescriptorFile] = disk[DescriptorFile]
    ]_vars

\* a second launch got from the file the descriptor the first got online
C14_Witness ==
  /\ launches = 2 /\ pc = "getNatives"
  /\ resolution = Resolved("file", "")
  /\ requests = 0
  /\ version = Some(Descriptor(options.number, meta.lacks))
  /\ Exists(disk, ManifestPath)

\* C15: when the manifest request fails because the host is not found,
\* getVersion yields a resolution error only if no manifest is cached or the
\* cached manifest does not list the requested id; with a cached manifest
\* that lists the id it yields the descriptor.
C15_OfflineFallback ==
  resolution = Resolved("error", "offline") =>
    ~Exists(disk, ManifestPath) \/ options.number \notin ManifestVersions

\* C16: when the manifest was fetched and lists no id equal to the requested
\* one, getVersion yields the 'not found' error, having sent the manifest
\* request only; no descriptor file is written, the launch has emitted one
\* close with code 1 and returned null, and it has started no download and
\* no process.
C16_VersionNotInManifest ==
  resolution = Resolved("error", "not found") =>
    /\ options.number \notin ManifestVersions
    /\ requests = 1
    /\ version = None
    /\ ~Exists(disk, DescriptorFile)
    /\ pc = "failed" /\ closes = << 1 >>
    /\ \A c \in calls : c.launch # launches
    /\ batch = << >> /\ progress = << >> /\ argv = None

\* the manifest was fetched and written, and the launch has failed on the id
C16_Witness ==
  /\ resolution = Resolved("error", "not found")
  /\ Exists(disk, ManifestPath)
  /\ options.number = UnlistedVersion
  /\ pc = "failed"

(***************************************************************************)
(* Properties of launch as a whole.                                        *)
(***************************************************************************)
\* the promise launch returned has settled: with null after close 1, or with
\* the handle of the spawned process
Settled == pc \in {"failed", "running", "exited"}

\* C17: every launch eventually settles: whatever fails on the way, the
\* promise launch returned is eventually resolved, and the process is never
\* brought down by an exception thrown outside that promise.
C17_LaunchSettles == (pc = "checkJava") ~> Settled

\* C18: a launch has emitted at most one close.  A launch that failed has
\* emitted close with code 1 and spawned nothing; a launch that spawned has
\* emitted one data event for each chunk the process wrote, no close while
\* the process runs, and once the process has ended one close with its exit
\* code; no launch has both spawned and failed.
C18_OneClosePerLaunch ==
  /\ Len(closes) <= 1
  /\ pc = "failed" => closes = << 1 >> /\ argv = None
  /\ argv = None => proc = NoProcess
  /\ argv # None =>
       /\ pc \in {"running", "exited"}
       /\ proc.data = proc.chunks
       /\ pc = "running" => closes = << >> /\ proc.exit = None
       /\ pc = "exited" => proc.exit # None /\ closes = << proc.exit[1] >>

\* a spawned process wrote a chunk and ended with code 0
C18_Witness ==
  /\ pc = "exited" /\ argv # None
  /\ proc.chunks = MaxChunks /\ proc.data = MaxChunks
  /\ closes = << 0 >>

\* the files the stages of the running launch must have left on disk: the
\* runtime jar, the class path libraries, the asset index and the asset
\* objects, and the log4j configuration file where one is used
RequiredFiles ==
  {McPath(options.number)}
  \cup { libs[i] : i \in 1..Len(libs) }
  \cup {IndexPath(version[1].assetIndex.id)}
  \cup { Join(SubAsset(AssetHash(AssetNames[i])), << AssetHash(AssetNames[i]) >>) :
           i \in 1..Len(AssetNames) }
  \cup (IF Log4jDownload(HandlerOptions, version[1].id) = None THEN {}
        ELSE {Join(Root, << Log4jDownload(HandlerOptions, version[1].id)[1].name >>)})

\* C19: a process is spawned only after version resolution and every
\* download stage completed successfully: when a launch has spawned, the
\* descriptor is loaded and every file the stages require is on disk with
\* the body of a status 200 answer.
C19_SpawnOnlyAfterSuccess ==
  argv # None =>
    /\ version # None
    /\ pc \in {"running", "exited"}
    /\ \A p \in RequiredFiles : Exists(disk, p) /\ disk[p] = "data"

\* the runtime jar could not be obtained: both requests for it failed
JarNotObtained ==
  /\ \E c \in calls : c.launch = launches /\ c.type = "client" /\ c.retry /\ c.failed
  /\ \E c \in calls : c.launch = launches /\ c.type = "client" /\ ~c.retry /\ c.failed

\* C20: a launch whose runtime jar is missing and could not be obtained, or
\* whose descriptor lacks downloads.client (the jar being absent),
\* assetIndex, mainClass or both argument fields, spawns no process: once it
\* is over it has failed with close 1.
C20_IncompleteDescriptorFails ==
  (meta.lacks # "none" \/ JarNotObtained) =>
    /\ argv = None
    /\ pc \in {"running", "exited", "failed"} => pc = "failed" /\ closes = << 1 >>

(***************************************************************************)
(* Properties of getNatives.                                               *)
(***************************************************************************)
\* the natives directory of the loaded descriptor exists and holds a file
NativesPresent ==
  /\ NativeDirectory(version[1].id) \in dirs
  /\ \E p \in DOMAIN disk : Dirname(p) = NativeDirectory(version[1].id)

\* the -Djava.library.path flag of the spawned list names the text
LibraryPathIs(text) ==
  \E i \in 1..Len(Spawned) :
    /\ Spawned[i] = Str(text)
    /\ \A j \in 1..Len(Spawned) : j # i => Spawned[j] \notin
         { Str("-Djava.library.path=/root"), Str("-Djava.library.path=/root/natives/1.16.5") }

\* C21: the getNatives step changes no file and no directory and starts no
\* download when the minor component of the id is at least 19, and when the
\* natives directory exists and is not empty.  From 1.19 on no natives
\* directory is ever made and the path returned, which launch puts into
\* -Djava.library.path, is the root; below 1.19 it is the natives directory.
C21_NativesSkipped ==
  [][/\ (pc = "getNatives" /\ pc' # pc
           /\ (VersionParts(version[1].id)[2] >= 19 \/ NativesPresent)) =>
          /\ pc' = "getJar"
          /\ dirs' = dirs /\ disk' = disk
          /\ calls' = calls /\ requests' = requests
     /\ (version # None /\ VersionParts(version[1].id)[2] >= 19) =>
          NativeDirectory(version[1].id) \notin dirs
     /\ argv # None =>
          IF VersionParts(version[1].id)[2] >= 19
            THEN LibraryPathIs("-Djava.library.path=/root")
            ELSE LibraryPathIs("-Djava.library.path=/root/natives/1.16.5")
    ]_vars

\* a second launch of 1.16.5 found the natives of the first and fetched none
C21_Witness ==
  /\ launches = 2 /\ pc = "getJar"
  /\ version # None /\ version[1].id = "1.16.5"
  /\ NativesPresent
  /\ \A c \in calls : c.launch = launches => c.type # "natives"

\* the archives of a natives directory, by their names
ArchivesIn(d) == { p \in DOMAIN d : Final(p) \in ArchiveNames }

\* C22: the extract step completes whatever the archives hold: afterwards no
\* .jar is left in the natives directory, every archive that could be read
\* has been extracted although another one could not, and the files that
\* are no archives are untouched unless an archive holds a file of the same
\* name.
C22_ExtractionBestEffort ==
  zipOut # None =>
    /\ ArchivesIn(zipOut[1]) = {}
    /\ \A p \in ArchivesIn(zipIn[1]) :
         zipIn[1][p] = "data" =>
           \E q \in DOMAIN zipOut[1] :
             /\ Final(q) = ExtractedName(Final(p))
             /\ zipOut[1][q] = "data"
    /\ \A p \in DOMAIN zipIn[1] \ ArchivesIn(zipIn[1]) :
         /\ p \in DOMAIN zipOut[1]
         /\ zipOut[1][p] \in {zipIn[1][p], "data"}

\* one archive could not be read, two others were extracted
C22_Witness ==
  /\ zipOut # None
  /\ \E p \in ArchivesIn(zipIn[1]) : zipIn[1][p] = "junk"
  /\ Cardinality({ p \in ArchivesIn(zipIn[1]) : zipIn[1][p] = "data" }) = 2
  /\ Cardinality({ q \in DOMAIN zipOut[1] : Final(q) \in {"libjinput.so", "libtext2speech.so",
                                                          "liblwjgl.so"} }) >= 2

(***************************************************************************)
(* Frame properties of getLaunchOptions.                                   *)
(***************************************************************************)
\* C23: the authorization object the caller passed is the same after the
\* arguments were built as before: every field, and whether it has a meta.
C23_AuthorizationUntouched ==
  argOut # None => authorization[1] = argIn[1].auth

\* C24: the descriptor the handler holds is the same after getLaunchOptions
\* as when it was loaded: arguments.game has the same tokens.
C24_DescriptorUntouched ==
  argOut # None => descriptor[1] = ArgsVersion(argIn[1].game, argIn[1].legacy)

(***************************************************************************)
(* The access token and the diagnostics.                                   *)
(***************************************************************************)
\* C25: two launches that fail at the same place and differ in the access
\* token only emit the same debug messages: no message of a failed launch
\* holds the access token.
C25_NoTokenInDiagnostics ==
  diagOut # None => diagOut[1].first = diagOut[1].second

(***************************************************************************)
(* The endpoints of the authenticator.                                     *)
(***************************************************************************)
\* the calls of the log that wrote the yggdrasil endpoints: a reset, or a
\* changeApiUrl that returned and named 'yggdrasil', 'all' or no service
Writes(call) ==
  \/ call.op = "resetApiUrls"
  \/ /\ call.op = "changeApiUrl"
     /\ ~call.threw
     /\ call.service \in { None, Some("yggdrasil"), Some("all") }

\* the endpoints are the five paths appended to base
FiveEndpoints(entry, base) ==
  /\ DOMAIN entry = {"authenticate", "refresh", "validate", "invalidate", "signout"}
  /\ entry.authenticate = base \o << "/authenticate" >>
  /\ entry.refresh = base \o << "/refresh" >>
  /\ entry.validate = base \o << "/validate" >>
  /\ entry.invalidate = base \o << "/invalidate" >>
  /\ entry.signout = base \o << "/signout" >>

\* base is url with one slash at the end removed, when there is one
OneSlashRemoved(url, base) ==
  IF url # << >> /\ url[Len(url)] = "/" THEN url = base \o << "/" >> ELSE url = base

\* the endpoints the log asks for
AsLogged(entry) ==
  LET writes == { i \in 1..Len(apiLog) : Writes(apiLog[i]) }
  IN IF writes = {} THEN FiveEndpoints(entry, << "https://authserver.mojang.com" >>)
     ELSE LET last == CHOOSE i \in writes : \A j \in writes : j <= i
          IN IF apiLog[last].op = "resetApiUrls"
               THEN FiveEndpoints(entry, << "https://authserver.mojang.com" >>)
             ELSE \E n \in 0..Len(apiLog[last].url.chars) :
                    LET base == SubSeq(apiLog[last].url.chars, 1, n)
                    IN /\ OneSlashRemoved(apiLog[last].url.chars, base)
                       /\ FiveEndpoints(entry, base)

\* C26: after any sequence of changeApiUrl and resetApiUrls the yggdrasil
\* endpoints are the five paths under the url of the most recent changeApiUrl
\* that returned with service 'yggdrasil' or 'all' since the last reset, one
\* slash at its end removed, or the Mojang endpoints when there is none;
\* getApiUrls returns them, and the microsoft entry never changes.
C26_EndpointsFollowLastChange ==
  /\ AsLogged(API_URLS.yggdrasil)
  /\ API_URLS.microsoft = << >>
  /\ apiOut # None /\ ~apiOut[1].threw =>
       /\ AsLogged(apiOut[1].value[1].yggdrasil)
       /\ apiOut[1].value[1].microsoft = << >>

\* two changes with different urls, the later one with a slash at its end,
\* then a change of the microsoft service, and getApiUrls has returned
C26_Witness ==
  /\ Len(apiLog) = 3
  /\ apiLog[1] = [op |-> "changeApiUrl", url |-> UrlText(<< "u", "/", "/" >>),
                  service |-> Some("all"), threw |-> FALSE]
  /\ apiLog[2] = [op |-> "changeApiUrl", url |-> UrlText(<< "u", "/" >>),
                  service |-> None, threw |-> FALSE]
  /\ apiLog[3].op = "changeApiUrl" /\ apiLog[3].service = Some("microsoft")
  /\ apiLog[3].url = UrlText(<< "u", "/", "/" >>)
  /\ apiOut = Some(Returned(getApiUrlsValue(API_URLS)))
  /\ API_URLS.yggdrasil.signout = << "u", "/signout" >>


\* C27: changeApiUrl called with the empty string, null or a value that is
\* not a string throws, and the endpoints are after it exactly what they were.
C27_InvalidUrlThrows ==
  [][\A url \in {UrlText(<< >>), NullUrl, NumberUrl}, service \in Services :
       changeApiUrl(url, service) =>
         /\ apiOut'[1].threw
         /\ apiOut'[1].message = "URL is required and must be a string"
         /\ API_URLS' = API_URLS]_vars

\* the empty string has been refused after a change of the endpoints
C27_Witness ==
  /\ Len(apiLog) = 2
  /\ apiLog[1] = [op |-> "changeApiUrl", url |-> UrlText(<< "u" >>),
                  service |-> Some("yggdrasil"), threw |-> FALSE]
  /\ apiLog[2] = [op |-> "changeApiUrl", url |-> UrlText(<< >>),
                  service |-> Some("all"), threw |-> TRUE]
  /\ apiOut = Some(Threw("URL is required and must be a string"))
  /\ API_URLS.yggdrasil = Endpoints(<< "u" >>)

(***************************************************************************)
(* Offline authentication and the refresh of tokens.                       *)
(***************************************************************************)
\* the calls that ask for the offline profile of a username: getOfflineAuth,
\* getAuth(username), and getAuth({ type: 'offline', username })
OfflineCall(call) ==
  \/ call.fn = "getOfflineAuth"
  \/ call.fn = "getAuth" /\ call.password = None /\ call.type = None
  \/ call.fn = "getAuth(options)" /\ call.password = None /\ call.type = Some("offline")

\* C28: any two offline calls for the same non-empty username, in any of the
\* three forms, send no request and return profiles with the same uuid,
\* access_token and client_token, the username as name and meta.type
\* 'offline'; getAuth(username) returns the profile of getOfflineAuth(username).
C28_OfflineDeterministic ==
  authOut # None /\ OfflineCall(authIn[1].first) /\ OfflineCall(authIn[1].second)
  /\ authIn[1].first.name = authIn[1].second.name =>
    LET first == authOut[1].first
        second == authOut[1].second
    IN /\ ~first.threw /\ ~second.threw
       /\ first.requests = 0 /\ second.requests = 0
       /\ first.value[1].uuid = second.value[1].uuid
       /\ first.value[1].access_token = second.value[1].access_token
       /\ first.value[1].client_token = second.value[1].client_token
       /\ first.value[1].name = authIn[1].first.name
       /\ second.value[1].name = authIn[1].second.name
       /\ first.value[1].meta.type = "offline" /\ second.value[1].meta.type = "offline"
       /\ (authIn[1].first.fn = "getOfflineAuth" /\ authIn[1].second.fn = "getAuth"
             => first.value = second.value)

\* getOfflineAuth('St') and getAuth('St') have returned
C28_Witness ==
  /\ authOut # None
  /\ authIn[1].first.fn = "getOfflineAuth" /\ authIn[1].second.fn = "getAuth"
  /\ OfflineCall(authIn[1].second)
  /\ authIn[1].first.name = << 83, 116 >> /\ authIn[1].second.name = << 83, 116 >>
  /\ Len(authOut[1].second.value[1].uuid) = 32


\* C29: refreshAuth with a type other than 'yggdrasil' (offline, microsoft or
\* none) sends no request and returns a profile whose access_token and
\* client_token are the tokens passed in.
C29_RefreshKeepsTokens ==
  authOut # None /\ authIn[1].first.fn = "refreshAuth"
  /\ authIn[1].first.type # Some("yggdrasil") =>
    /\ authOut[1].first.requests = 0
    /\ ~authOut[1].first.threw
    /\ authOut[1].first.value[1].access_token = authIn[1].first.access
    /\ authOut[1].first.value[1].client_token = authIn[1].first.client

(***************************************************************************)
(* Resuming after a batch that was aborted.                                *)
(***************************************************************************)
\* the download whose rejection aborted the running launch
AbortedBy(c) ==
  c.launch = launches /\ c.waiter # None /\ c.wfail /\ c.promise = "rejected"

\* C30: when a launch has been aborted by a download that failed, no file
\* is left at the destination of that download; and a launch made after a
\* failed one, once it has started the process, has left every required
\* file holding its successfully downloaded content.
C30_ResumeAfterAbort ==
  /\ pc = "failed" =>
       \A c \in calls : AbortedBy(c) => ~Exists(disk, c.dest)
  /\ launches > 1 /\ prior = "failed" /\ pc \in {"running", "exited"} =>
       \A p \in RequiredFiles : Exists(disk, p) /\ disk[p] = "data"

(***************************************************************************)
(* Substitution of the tokens a conditional token expands to.              *)
(***************************************************************************)
\* C31: every literal token of the game arguments has been run through the
\* substitution, the value of a conditional token and the token after a
\* conditional token included: the result holds no key of the table.
C31_NoPlaceholderLeft ==
  argOut # None =>
    \A i \in 1..Len(argOut[1]) :
      argOut[1][i].t = "string" =>
        argOut[1][i].v \notin DOMAIN Fields(ArgOptions(argIn[1]), descriptor[1])

(***************************************************************************)
(* The failed Java check.                                                  *)
(***************************************************************************)
\* C32: when the Java check fails, launch emits close with code 1 and
\* returns null before anything else: the launch has sent no request, and
\* the step creates no directory, writes no file, starts no download and
\* spawns no process.
C32_JavaCheckFailsFirst ==
  [][pc = "checkJava" /\ pc' = "failed" =>
       /\ requests = 0 /\ requests' = 0
       /\ \A c \in calls' : c.launch # launches
       /\ dirs' = dirs /\ disk' = disk /\ calls' = calls
       /\ version' = None /\ resolution' = None
       /\ argv' = None /\ proc' = NoProcess
       /\ closes' = << 1 >>]_vars

\* the first launch on an empty root has failed at the Java check
C32_Witness ==
  /\ pc = "failed" /\ launches = 1 /\ version = None /\ resolution = None
  /\ closes = << 1 >>
  /\ dirs = {} /\ disk = << >> /\ calls = {} /\ argv = None

(***************************************************************************)
(* The heap flags.                                                         *)
(***************************************************************************)
\* the numbers of megabytes the harness passes
MemoryNumbers == {256, 512, 1023, 2048}

\* C33: without memory the heap flags are -Xmx1023M and -Xms512M; with
\* numbers max >= min they are -Xmx<max>M and -Xms<min>M; with numbers
\* max < min they are -Xmx1023M and -Xms512M, so that for numbers the
\* emitted maximum is never below the emitted minimum; values with a unit
\* suffix are passed as they are.
C33_HeapFlags ==
  jvmOut # None =>
    LET memory == jvmIn[1].memory
        xmx == jvmOut[1].jvm[6].v
        xms == jvmOut[1].jvm[7].v
        numbers == memory # None /\ memory[1].max.isNum /\ memory[1].min.isNum
    IN /\ memory = None => xmx = "-Xmx1023M" /\ xms = "-Xms512M"
       /\ numbers /\ memory[1].max.n >= memory[1].min.n =>
            /\ xmx = HeapFlag("-Xmx", MegaText(memory[1].max.n))
            /\ xms = HeapFlag("-Xms", MegaText(memory[1].min.n))
       /\ numbers /\ memory[1].max.n < memory[1].min.n =>
            xmx = "-Xmx1023M" /\ xms = "-Xms512M"
       /\ numbers =>
            \E max \in MemoryNumbers, min \in MemoryNumbers :
              /\ max >= min
              /\ xmx = HeapFlag("-Xmx", MegaText(max))
              /\ xms = HeapFlag("-Xms", MegaText(min))
       /\ memory = Some([max |-> MemStr("4G"), min |-> MemStr("2G")]) =>
            xmx = "-Xmx4G" /\ xms = "-Xms2G"

\* the flags were built for a maximum of 256 below a minimum of 512
C33_Witness ==
  /\ jvmOut # None
  /\ jvmIn[1].memory = Some([max |-> MemNum(256), min |-> MemNum(512)])
  /\ jvmOut[1].jvm[6].v = "-Xmx1023M" /\ jvmOut[1].jvm[7].v = "-Xms512M"

(***************************************************************************)
(* What the promise of downloadAsync stands for.                           *)
(***************************************************************************)
\* the retry that call c started, still in flight
RetryInFlight(c) ==
  \E d \in calls : d # c /\ SameEntry(d, c.launch, c.type, c.entry) /\ ~d.retry /\ Live(d)

\* C34: the promise of downloadAsync is resolved only after the body of a
\* status 200 answer was written by that attempt: never after a body of
\* another status, and never while a retry for the same file is in flight.
C34_ResolvedMeansDownloaded ==
  \A c \in calls :
    c.promise = "resolved" =>
      /\ ~c.failed
      /\ ~RetryInFlight(c)

(***************************************************************************)
(* Two launches at once.                                                   *)
(***************************************************************************)
\* the tasks a batch of total entries reports when it runs alone
AloneTasks(total) == [i \in 1..(total + 1) |-> i - 1]

\* C35: the progress events of each of two concurrent launches are those it
\* emits alone: the tasks are 0, 1, 2, ... in order, task never exceeds
\* total, and the last task of a finished batch is its total.
C35_NoInterference ==
  \A k \in DOMAIN clients :
    /\ clients[k].tasks = SubSeq(AloneTasks(clients[k].total), 1, Len(clients[k].tasks))
    /\ \A i \in 1..Len(clients[k].tasks) : clients[k].tasks[i] <= clients[k].total
    /\ clients[k].stage = "done" => Final(clients[k].tasks) = clients[k].total

(***************************************************************************)
(* One writer for each destination.                                        *)
(***************************************************************************)
\* the write stream of call c is open
Writing(c) == Live(c) /\ ~c.wfail

\* C36: within one launch a destination has at most one writer at a time:
\* no two downloads of the launch have their write streams open on the
\* same file, a retry and its first attempt included.
C36_SingleWriter ==
  \A c \in calls, d \in calls :
    c # d /\ c.launch = launches /\ d.launch = launches /\ c.dest = d.dest
      => ~(Writing(c) /\ Writing(d))

(***************************************************************************)
(* The order of the class path.                                            *)
(***************************************************************************)
\* the paths of the included libraries, in the order of the descriptor
DescriptorOrder ==
  LET parsed == ClassEntries(version[1].libraries, TargetOS)
  IN [i \in 1..Len(parsed) |-> Join(parsed[i].directory, << parsed[i].name >>)]

\* C37: the library paths getClasses returns are in the order of the
\* descriptor's library list, whatever was on disk and in whatever order
\* the downloads complete: a launch that spawned has this class path.
C37_ClasspathInDescriptorOrder ==
  argv # None => libs = DescriptorOrder

(***************************************************************************)
(* Resuming getNatives.                                                    *)
(***************************************************************************)
\* the running launch follows a failed one and none of its own downloads failed
CleanResume ==
  /\ launches > 1 /\ prior = "failed"
  /\ \A c \in calls : c.launch = launches => ~c.failed /\ ~c.wfail

\* the natives directory holds no archive and, for every native the version
\* declares for the OS, the library extracted from it
NativesComplete ==
  LET dir == NativeDirectory(version[1].id)
      natives == NativeEntries(version[1].libraries, TargetOS, dir)
  IN /\ \A p \in DOMAIN disk : Dirname(p) = dir => ~IsJar(Basename(p))
     /\ \A i \in 1..Len(natives) :
          Exists(disk, Join(dir, << ExtractedName(natives[i].name) >>))

\* C38: when getNatives has returned in a launch that follows a failed one,
\* whatever the failed launch left in the natives directory, the directory
\* holds no unextracted archive and lacks no native library the version
\* declares for the OS.
C38_NativesResume ==
  (CleanResume /\ pc = "getJar" /\ Minor(version[1].id) < 19) => NativesComplete

(***************************************************************************)
(* After the close event of a failed launch.                               *)
(***************************************************************************)
\* C39: once a launch has emitted close 1, it emits no further progress
\* event, starts no further request and writes no further file: the
\* downloads of the aborted batch that were in flight do nothing more.
C39_QuietAfterFailure ==
  [][pc = "failed" /\ pc' = "failed" =>
       /\ progress' = progress
       /\ requests' = requests
       /\ launches = 1 => disk' = disk]_vars

============================================================================
